---- MODULE Spec2Model ----
(***************************************************************************)
(* Distributed chunk-based file system: the replicated metadata plane      *)
(* (RaftNode + MetadataStorage + MetadataService), the storage nodes       *)
(* (ChunkServer) and the client SDK (DFSClient).                           *)
(*                                                                         *)
(* Python values are modelled as follows.  None is the record NoInode /    *)
(* NoChunk / NoSession of the type in question, the node id                *)
(* "None", or the inode id 0.  List indices stay 0-based as in the code;   *)
(* a TLA+ sequence s holds the Python element s[i] at s[i + 1].            *)
(* The clock counts hours.  created_at, modified_at, owner and permission   *)
(* bits of the records are left out.                                       *)
(***************************************************************************)
EXTENDS Integers, Sequences, FiniteSets, TLC

\* ---------------------------------------------------------------- constants
CHUNK_SIZE == 64 * 1024 * 1024
REPLICATION_FACTOR == 3
ROOT_INODE_ID == 1
GC_GRACE_PERIOD_HOURS == 24
\* timedelta(hours=24) of an upload session
EXPIRES_HOURS == 24

UPLOADING == "UPLOADING"
ACTIVE == "ACTIVE"
DELETED == "DELETED"
FILE == "FILE"
DIRECTORY == "DIRECTORY"
LEADER == "LEADER"
FOLLOWER == "FOLLOWER"
CANDIDATE == "CANDIDATE"
PENDING == "PENDING"
None == "None"

\* ------------------------------------------------------------------- bounds
MaxOps == 2
MaxClusterOps == 2
MaxTerm == 2
MaxReplay == 3
MaxTreeOps == 3
MaxGcOps == 4
MaxSeqOps == 5
MaxNow == 25
MaxPlaceOps == 4
MaxRpcOps == 3
MaxChunkOps == 3

\* ------------------------------------------------------------ null records
NoInode == [inode_id |-> 0, parent_id |-> 0, name |-> "", type |-> "",
            size |-> 0, status |-> "", version |-> 0]
NoChunk == [chunk_id |-> 0, inode_id |-> 0, version |-> 0, chunk_index |-> 0,
            size |-> 0, checksum |-> 0, servers |-> <<>>]
NoSession == [upload_id |-> 0, inode_id |-> 0, version |-> 0, chunks |-> <<>>,
              status |-> "", expires_at |-> 0]

Min(a, b) == IF a < b THEN a ELSE b
Max(a, b) == IF a > b THEN a ELSE b

\* ------------------------------------------------- the dict behind storage
\* MetadataStorage._data is one dict; its key prefixes inode:, children:,
\* chunk:, upload: are kept as one map each, server: as the sequence of the
\* registered servers in insertion order.
data_put(f, k, v) == [x \in (DOMAIN f) \cup {k} |-> IF x = k THEN v ELSE f[x]]
data_delete(f, k) == [x \in (DOMAIN f) \ {k} |-> f[x]]
data_get(f, k, default) == IF k \in DOMAIN f THEN f[k] ELSE default

EmptyStorage == [inodes |-> <<>>, children |-> <<>>, chunks |-> <<>>,
                 chunk_refs |-> <<>>,
                 uploads |-> <<>>, servers |-> <<>>, next_inode_id |-> 2]

get_inode(s, inode_id) == data_get(s.inodes, inode_id, NoInode)
\* a put that counts the writes of a record in its version instead of
\* replacing the record
put_inode_versioned(s, inode) ==
    [s EXCEPT !.inodes = data_put(@, inode.inode_id,
        IF inode.inode_id \in DOMAIN s.inodes
        THEN [inode EXCEPT !.version = s.inodes[inode.inode_id].version + 1]
        ELSE inode)]
put_inode(s, inode) == [s EXCEPT !.inodes = data_put(@, inode.inode_id, inode)]
delete_inode(s, inode_id) == [s EXCEPT !.inodes = data_delete(@, inode_id)]
add_child(s, parent_id, child_name, child_id) ==
    [s EXCEPT !.children = data_put(@, <<parent_id, child_name>>, child_id)]
\* a removal that leaves the edge in place
keep_child(s, parent_id, child_name) == s
remove_child(s, parent_id, child_name) ==
    [s EXCEPT !.children = data_delete(@, <<parent_id, child_name>>)]
get_child(s, parent_id, child_name) ==
    data_get(s.children, <<parent_id, child_name>>, 0)
list_children(s, parent_id) == {k \in DOMAIN s.children : k[1] = parent_id}
put_chunk(s, chunk) ==
    [s EXCEPT !.chunks =
        data_put(@, <<chunk.inode_id, chunk.version, chunk.chunk_index>>, chunk)]
\* get_chunks: the rows with the prefix, sorted by chunk_index
chunk_keys(s, inode_id, version) ==
    {k \in DOMAIN s.chunks : k[1] = inode_id /\ k[2] = version}
RECURSIVE sort_by_index(_, _)
sort_by_index(s, keys) ==
    IF keys = {} THEN <<>>
    ELSE LET k == CHOOSE x \in keys : \A y \in keys : x[3] <= y[3]
         IN <<s.chunks[k]>> \o sort_by_index(s, keys \ {k})
get_chunks(s, inode_id, version) == sort_by_index(s, chunk_keys(s, inode_id, version))
delete_chunks(s, inode_id, version) ==
    [s EXCEPT !.chunks = [k \in (DOMAIN @) \ chunk_keys(s, inode_id, version) |-> @[k]]]

\* reference counts: a chunk id without a record counts 0
get_chunk_ref(s, chunk_id) == data_get(s.chunk_refs, chunk_id, 0)
increment_chunk_ref(s, chunk_id) ==
    [s EXCEPT !.chunk_refs = data_put(@, chunk_id, get_chunk_ref(s, chunk_id) + 1)]
decrement_chunk_ref(s, chunk_id) ==
    [s EXCEPT !.chunk_refs =
        data_put(@, chunk_id, Max(0, get_chunk_ref(s, chunk_id) - 1))]

put_upload_session(s, session) ==
    [s EXCEPT !.uploads = data_put(@, session.upload_id, session)]
get_upload_session(s, upload_id) == data_get(s.uploads, upload_id, NoSession)
delete_upload_session(s, upload_id) ==
    [s EXCEPT !.uploads = data_delete(@, upload_id)]

\* ------------------------------------------------------------ GarbageCollector
\* The collector of a node works on the store of the node.  deletion_queue
\* holds <<priority, inode_id>> pairs, chunk_gc_queue the ChunkGCEntry
\* records in arrival order, pending is the list of _process_chunk_gc.
NewGarbageCollector == [deletion_queue |-> <<>>, chunk_gc_queue |-> <<>>,
                        pending |-> <<>>]

queue_deletion(g, inode_id, priority) ==
    [g EXCEPT !.deletion_queue = Append(@, <<priority, inode_id>>)]

\* PriorityQueue.get: the position of a least pair
least(q) ==
    CHOOSE i \in DOMAIN q : \A j \in DOMAIN q :
        \/ q[i][1] < q[j][1]
        \/ q[i][1] = q[j][1] /\ q[i][2] <= q[j][2]
without(q, i) == SubSeq(q, 1, i - 1) \o SubSeq(q, i + 1, Len(q))

\* time.time(): seconds since the epoch, above the priorities 0 and 1
time_time(t) == t + 2

\* an entry that is due at once
ChunkGCEntryNow(chunk, t) ==
    [chunk_id |-> chunk.chunk_id, servers |-> chunk.servers, delete_after |-> t]

ChunkGCEntry(chunk, t) ==
    [chunk_id |-> chunk.chunk_id, servers |-> chunk.servers,
     delete_after |-> t + GC_GRACE_PERIOD_HOURS]

\* the collector state the helpers work on: store s and collector g
RECURSIVE drop_refs(_, _, _, _)
\* the loop over the chunks of one version, from position i, at time t
drop_refs(sg, chunks, i, t) ==
    IF i > Len(chunks) THEN sg
    ELSE LET s1 == decrement_chunk_ref(sg.s, chunks[i].chunk_id)
         IN drop_refs([s |-> s1,
                       g |-> IF get_chunk_ref(s1, chunks[i].chunk_id) <= 0
                             THEN [sg.g EXCEPT !.chunk_gc_queue =
                                      Append(@, ChunkGCEntry(chunks[i], t))]
                             ELSE sg.g],
                      chunks, i + 1, t)

RECURSIVE delete_versions(_, _, _, _, _)
\* for version in range(version, last + 1)
delete_versions(sg, inode_id, version, last, t) ==
    IF version > last THEN sg
    ELSE LET d == drop_refs(sg, get_chunks(sg.s, inode_id, version), 1, t)
         IN delete_versions([d EXCEPT !.s = delete_chunks(@, inode_id, version)],
                            inode_id, version + 1, last, t)

delete_file_chunks(sg, inode_id, t) ==
    IF get_inode(sg.s, inode_id) = NoInode THEN sg
    ELSE delete_versions(sg, inode_id, 1, get_inode(sg.s, inode_id).version, t)

RECURSIVE delete_children(_, _, _, _)
\* one batch of _delete_directory_contents over the edges in keys; the batch
\* removes every edge it has seen, so the next batch is empty
delete_children(sg, dir_inode_id, keys, t) ==
    IF keys = {} THEN sg
    ELSE LET k == CHOOSE x \in keys : TRUE
             child_id == sg.s.children[k]
             child == get_inode(sg.s, child_id)
             done == IF child = NoInode THEN sg
                     ELSE IF child.type = DIRECTORY
                     THEN [sg EXCEPT !.g = queue_deletion(@, child_id, time_time(t))]
                     ELSE [delete_file_chunks(sg, child_id, t) EXCEPT
                              !.s = delete_inode(@, child_id)]
         IN delete_children([done EXCEPT !.s = remove_child(@, dir_inode_id, k[2])],
                            dir_inode_id, keys \ {k}, t)

\* one round of _process_deletions that found the pair at position i
process_deletion(sg, i, t) ==
    LET inode_id == sg.g.deletion_queue[i][2]
        got == [sg EXCEPT !.g.deletion_queue = without(@, i)]
        inode == get_inode(sg.s, inode_id)
    IN IF inode = NoInode THEN got
       ELSE [(IF inode.type = DIRECTORY
              THEN delete_children(got, inode_id, list_children(got.s, inode_id), t)
              ELSE delete_file_chunks(got, inode_id, t))
             EXCEPT !.s = delete_inode(@, inode_id)]

\* one round of _process_chunk_gc at time t: the entries that are due leave
\* pending, one entry of the queue joins it
process_chunk_gc(g, t) ==
    LET waiting == SelectSeq(g.pending, LAMBDA e : e.delete_after > t)
    IN IF g.chunk_gc_queue = <<>> THEN [g EXCEPT !.pending = waiting]
       ELSE [g EXCEPT !.pending = Append(waiting, Head(g.chunk_gc_queue)),
                      !.chunk_gc_queue = Tail(@)]

\* ------------------------------------------------------------ log commands
Command(type) == [type |-> type, inode |-> NoInode, inode_id |-> 0,
                  parent_id |-> 0, name |-> "", child_id |-> 0, chunk |-> NoChunk]
CreateInodeCmd(inode) == [Command("CREATE_INODE") EXCEPT !.inode = inode]
DeleteInodeCmd(inode_id) == [Command("DELETE_INODE") EXCEPT !.inode_id = inode_id]
AddChildCmd(parent_id, name, child_id) ==
    [Command("ADD_CHILD") EXCEPT !.parent_id = parent_id, !.name = name,
                                 !.child_id = child_id]
RemoveChildCmd(parent_id, name) ==
    [Command("REMOVE_CHILD") EXCEPT !.parent_id = parent_id, !.name = name]
PutChunkCmd(chunk) == [Command("PUT_CHUNK") EXCEPT !.chunk = chunk]

apply_command(s, command) ==
    CASE command.type = "CREATE_INODE" -> put_inode(s, command.inode)
      [] command.type = "DELETE_INODE" -> delete_inode(s, command.inode_id)
      [] command.type = "ADD_CHILD" ->
            add_child(s, command.parent_id, command.name, command.child_id)
      [] command.type = "REMOVE_CHILD" ->
            remove_child(s, command.parent_id, command.name)
      [] command.type = "PUT_CHUNK" -> put_chunk(s, command.chunk)
      [] OTHER -> s

\* ------------------------------------------------------------------- nodes
NodeOrder == <<"n1", "n2">>

\* A RaftNode together with the MetadataStorage and the lock table of the
\* MetadataService that owns it, right after construction. applied is
\* history: the entries handed to _apply_command, in the order of the calls.
NewNode(node_id, peers) ==
    [node_id |-> node_id, peers |-> peers,
     current_term |-> 0, voted_for |-> None, log |-> <<>>,
     role |-> FOLLOWER, leader_id |-> None,
     commit_index |-> -1, last_applied |-> -1,
     next_index |-> <<>>, match_index |-> <<>>,
     started |-> FALSE,
     storage |-> put_inode(EmptyStorage,
                   [inode_id |-> ROOT_INODE_ID, parent_id |-> ROOT_INODE_ID,
                    name |-> "/", type |-> DIRECTORY, size |-> 0,
                    status |-> ACTIVE, version |-> 1]),
     locks |-> {}, gc_queue |-> <<>>,
     gc |-> NewGarbageCollector,
     applied |-> <<>>]

RECURSIVE apply_committed_entries(_)
apply_committed_entries(nd) ==
    IF nd.last_applied < nd.commit_index
    THEN LET la == nd.last_applied + 1
             st == IF la < Len(nd.log)
                   THEN apply_command(nd.storage, nd.log[la + 1].command)
                   ELSE nd.storage
             done == IF la < Len(nd.log)
                     THEN Append(nd.applied, nd.log[la + 1]) ELSE nd.applied
         IN apply_committed_entries([nd EXCEPT !.last_applied = la, !.storage = st,
                                               !.applied = done])
    ELSE nd

become_leader(nd) ==
    [nd EXCEPT !.role = LEADER, !.leader_id = nd.node_id,
               !.next_index = [p \in (DOMAIN @) \cup {nd.peers[i] : i \in DOMAIN nd.peers}
                                 |-> IF \E i \in DOMAIN nd.peers : nd.peers[i] = p
                                     THEN Len(nd.log) ELSE @[p]],
               !.match_index = [p \in (DOMAIN @) \cup {nd.peers[i] : i \in DOMAIN nd.peers}
                                 |-> IF \E i \in DOMAIN nd.peers : nd.peers[i] = p
                                     THEN -1 ELSE @[p]]]

\* --------------------------------------------------------- RPC handlers
\* "if request.term > self.current_term": adopt the term, become follower
step_down(nd, term) ==
    IF term > nd.current_term
    THEN [nd EXCEPT !.current_term = term, !.role = FOLLOWER, !.voted_for = None]
    ELSE nd

VoteReply(nd, granted) ==
    [nd |-> nd,
     resp |-> [none |-> FALSE, term |-> nd.current_term, vote_granted |-> granted]]

\* a vote given without the comparison of the logs
decide_vote_any_log(nd1, request) ==
    IF request.term < nd1.current_term THEN VoteReply(nd1, FALSE)
    ELSE IF nd1.voted_for # None /\ nd1.voted_for # request.candidate_id
    THEN VoteReply(nd1, FALSE)
    ELSE VoteReply([nd1 EXCEPT !.voted_for = request.candidate_id], TRUE)

\* handle_request_vote after the term check
decide_vote(nd1, request) ==
    LET my_last_index == Len(nd1.log) - 1
        my_last_term == IF Len(nd1.log) > 0 THEN nd1.log[Len(nd1.log)].term ELSE 0
        log_ok == \/ request.last_log_term > my_last_term
                  \/ /\ request.last_log_term = my_last_term
                     /\ request.last_log_index >= my_last_index
    IN IF request.term < nd1.current_term THEN VoteReply(nd1, FALSE)
       ELSE IF nd1.voted_for # None /\ nd1.voted_for # request.candidate_id
       THEN VoteReply(nd1, FALSE)
       ELSE IF log_ok
       THEN VoteReply([nd1 EXCEPT !.voted_for = request.candidate_id], TRUE)
       ELSE VoteReply(nd1, FALSE)

handle_request_vote(nd0, request) == decide_vote(step_down(nd0, request.term), request)

RECURSIVE append_new_entries(_, _, _, _)
append_new_entries(log, entries, prev_log_index, i) ==
    IF i >= Len(entries) THEN log
    ELSE LET index == prev_log_index + 1 + i
             entry == entries[i + 1]
         IN append_new_entries(
               IF index < Len(log)
               THEN IF log[index + 1].term # entry.term
                    THEN Append(SubSeq(log, 1, index), entry)
                    ELSE log
               ELSE Append(log, entry),
               entries, prev_log_index, i + 1)

AppendReply(nd, ok) ==
    [nd |-> nd, resp |-> [none |-> FALSE, term |-> nd.current_term, success |-> ok]]

\* handle_append_entries: the update of commit_index and the apply
accept_commit(nd3, request) ==
    AppendReply(IF request.leader_commit > nd3.commit_index
                THEN apply_committed_entries(
                        [nd3 EXCEPT !.commit_index =
                            Min(request.leader_commit, Len(nd3.log) - 1)])
                ELSE nd3, TRUE)

\* handle_append_entries: the consistency check and the append
check_prev_log(nd2, request) ==
    LET prev == request.prev_log_index
    IN IF prev >= 0 /\ prev >= Len(nd2.log) THEN AppendReply(nd2, FALSE)
       ELSE IF prev >= 0 /\ nd2.log[prev + 1].term # request.prev_log_term
       THEN AppendReply([nd2 EXCEPT !.log = SubSeq(@, 1, prev)], FALSE)
       ELSE accept_commit([nd2 EXCEPT !.log =
                              append_new_entries(@, request.entries, prev, 0)],
                          request)

\* handle_append_entries after the term check
accept_leader(nd1, request) ==
    IF request.term < nd1.current_term THEN AppendReply(nd1, FALSE)
    ELSE check_prev_log([nd1 EXCEPT !.leader_id = request.leader_id,
                                    !.role = FOLLOWER], request)

handle_append_entries(nd0, request) ==
    accept_leader(step_down(nd0, request.term), request)

\* ------------------------------------------------------------ RPC
\* _send_request_vote / _send_append_entries are simulated: whatever the
\* state of the peer, the caller gets a granted vote / a success that carries
\* the caller's own term.
send_request_vote(nd, peer, request) ==
    [none |-> FALSE, term |-> nd.current_term, vote_granted |-> TRUE]

send_append_entries(nd, peer, request) ==
    [none |-> FALSE, term |-> nd.current_term, success |-> TRUE]

\* The RPC server of the peer: the request given to the simulated call is
\* handed to the peer's handler ("received") or is not ("dropped"); nobody
\* reads the handler's reply.
RpcOutcomes == {"received", "dropped"}
PeerSet(nd) == {nd.peers[i] : i \in DOMAIN nd.peers}

incoming(N, peer, h, outcome) ==
    IF outcome = "received" THEN [N EXCEPT ![peer] = h.nd] ELSE N

\* ------------------------------------------------------------ leader election
majority(nd) == (Len(nd.peers) + 1) \div 2 + 1

vote_request(nd) ==
    [term |-> nd.current_term, candidate_id |-> nd.node_id,
     last_log_index |-> Len(nd.log) - 1,
     last_log_term |-> IF Len(nd.log) > 0 THEN nd.log[Len(nd.log)].term ELSE 0]

RECURSIVE request_votes(_, _, _, _, _)
RECURSIVE count_vote(_, _, _, _, _, _)
\* the loop of _start_election over self.peers, from peer number i on
request_votes(N, n, i, votes_received, net) ==
    IF i > Len(N[n].peers)
    THEN IF votes_received >= majority(N[n])
         THEN [N EXCEPT ![n] = become_leader(@)]
         ELSE [N EXCEPT ![n].role = FOLLOWER]
    ELSE count_vote([N |-> incoming(N, N[n].peers[i],
                                    handle_request_vote(N[N[n].peers[i]],
                                                        vote_request(N[n])),
                                    net[N[n].peers[i]]),
                     resp |-> send_request_vote(N[n], N[n].peers[i],
                                                vote_request(N[n]))],
                    N[n].current_term, n, i, votes_received, net)

\* the body of the loop once the response r is there
count_vote(r, term, n, i, votes_received, net) ==
    IF ~r.resp.none /\ r.resp.term > term
    THEN [r.N EXCEPT ![n].current_term = r.resp.term,
                     ![n].role = FOLLOWER, ![n].voted_for = None]
    ELSE request_votes(r.N, n, i + 1,
                       IF ~r.resp.none /\ r.resp.vote_granted
                       THEN votes_received + 1 ELSE votes_received, net)

start_election(N, n, net) ==
    request_votes([N EXCEPT ![n].current_term = @ + 1, ![n].role = CANDIDATE,
                            ![n].voted_for = n], n, 1, 1, net)

\* ------------------------------------------------------------ log replication
\* the AppendEntriesRequest _replicate_to_peer builds for peer
append_request(nd, peer) ==
    LET ni == data_get(nd.next_index, peer, 0)
        prev_log_index == ni - 1
    IN [term |-> nd.current_term, leader_id |-> nd.node_id,
        prev_log_index |-> prev_log_index,
        prev_log_term |-> IF prev_log_index >= 0 /\ prev_log_index < Len(nd.log)
                          THEN nd.log[prev_log_index + 1].term ELSE 0,
        entries |-> SubSeq(nd.log, ni + 1, Len(nd.log)),
        leader_commit |-> nd.commit_index]

\* _replicate_to_peer once the response r is there; nd is the leader before
\* the call
on_append_response(r, nd, peer) ==
    IF r.resp.none THEN [N |-> r.N, ok |-> FALSE]
    ELSE IF r.resp.success
    THEN [N |-> [r.N EXCEPT ![nd.node_id].next_index = data_put(@, peer, Len(nd.log)),
                            ![nd.node_id].match_index =
                                data_put(@, peer, Len(nd.log) - 1)],
          ok |-> TRUE]
    ELSE [N |-> [r.N EXCEPT ![nd.node_id].next_index =
                    data_put(@, peer, Max(0, data_get(nd.next_index, peer, 0) - 1))],
          ok |-> FALSE]

replicate_to_peer(N, n, peer, outcome) ==
    on_append_response(
        [N |-> incoming(N, peer,
                        handle_append_entries(N[peer], append_request(N[n], peer)),
                        outcome),
         resp |-> send_append_entries(N[n], peer, append_request(N[n], peer))],
        N[n], peer)

RECURSIVE replicate_loop(_, _, _, _, _)
RECURSIVE replicate_count(_, _, _, _, _)
\* the loop of _replicate_to_majority over self.peers, from peer number i on
replicate_loop(N, n, i, success_count, net) ==
    IF i > Len(N[n].peers) THEN [N |-> N, success_count |-> success_count]
    ELSE replicate_count(replicate_to_peer(N, n, N[n].peers[i], net[N[n].peers[i]]),
                         n, i, success_count, net)

replicate_count(r, n, i, success_count, net) ==
    replicate_loop(r.N, n, i + 1,
                   IF r.ok THEN success_count + 1 ELSE success_count, net)

advance_commit(nd) ==
    IF Len(nd.log) - 1 > nd.commit_index
    THEN apply_committed_entries([nd EXCEPT !.commit_index = Len(nd.log) - 1])
    ELSE nd

\* _replicate_to_majority once the loop result r is there
commit_on_majority(r, n) ==
    IF Len(r.N[n].peers) = 0 \/ r.success_count >= majority(r.N[n])
    THEN [N |-> [r.N EXCEPT ![n] = advance_commit(@)], ret |-> "True"]
    ELSE [N |-> r.N, ret |-> "False"]

replicate_to_majority(N, n, net) == commit_on_majority(replicate_loop(N, n, 1, 1, net), n)

\* propose: ret is "True" / "False", or "NotLeader" when NotLeaderError is raised
propose(N, n, command, net) ==
    IF N[n].role # LEADER THEN [N |-> N, ret |-> "NotLeader"]
    ELSE replicate_to_majority(
            [N EXCEPT ![n].log = Append(@, [term |-> N[n].current_term,
                                            command |-> command,
                                            index |-> Len(N[n].log)])], n, net)

RECURSIVE heartbeat_loop(_, _, _, _)
heartbeat_loop(N, n, i, net) ==
    IF i > Len(N[n].peers) THEN N
    ELSE heartbeat_loop(replicate_to_peer(N, n, N[n].peers[i], net[N[n].peers[i]]).N,
                        n, i + 1, net)
send_heartbeats(N, n, net) == heartbeat_loop(N, n, 1, net)

\* ------------------------------------------------------------ linearizable read
\* the empty AppendEntriesRequest of read_index
heartbeat_request(nd) ==
    [term |-> nd.current_term, leader_id |-> nd.node_id,
     prev_log_index |-> Len(nd.log) - 1,
     prev_log_term |-> IF Len(nd.log) > 0 THEN nd.log[Len(nd.log)].term ELSE 0,
     entries |-> <<>>, leader_commit |-> nd.commit_index]

RECURSIVE confirm_leadership(_, _, _, _, _)
RECURSIVE count_ack(_, _, _, _, _)
\* the loop of read_index over self.peers, from peer number i on
confirm_leadership(N, n, i, acks, net) ==
    IF i > Len(N[n].peers) THEN [N |-> N, acks |-> acks]
    ELSE count_ack([N |-> incoming(N, N[n].peers[i],
                                   handle_append_entries(N[N[n].peers[i]],
                                                         heartbeat_request(N[n])),
                                   net[N[n].peers[i]]),
                    resp |-> send_append_entries(N[n], N[n].peers[i],
                                                 heartbeat_request(N[n]))],
                   n, i, acks, net)

count_ack(r, n, i, acks, net) ==
    confirm_leadership(r.N, n, i + 1,
                       IF ~r.resp.none /\ r.resp.success THEN acks + 1 ELSE acks, net)

\* read_index once the heartbeat round r is over; ri is the commit_index
\* recorded before it
wait_applied(r, n, ri) ==
    IF r.acks < majority(r.N[n])
    THEN [N |-> r.N, raised |-> TRUE, blocked |-> FALSE, value |-> 0, acks |-> r.acks]
    ELSE [N |-> r.N, raised |-> FALSE, blocked |-> r.N[n].last_applied < ri,
          value |-> ri, acks |-> r.acks]

\* read_index: raised = NotLeaderError; blocked = the wait for the applier
\* (last_applied < read_index) has not ended
read_index(N, n, net) ==
    IF N[n].role # LEADER
    THEN [N |-> N, raised |-> TRUE, blocked |-> FALSE, value |-> 0, acks |-> 0]
    ELSE IF Len(N[n].peers) = 0
    THEN [N |-> N, raised |-> FALSE, blocked |-> FALSE,
          value |-> Max(0, N[n].commit_index), acks |-> 1]
    ELSE wait_applied(confirm_leadership(N, n, 1, 1, net), n, N[n].commit_index)

\* ============================================================ system state
VARIABLES
    nodes,          \* node id -> RaftNode + MetadataStorage + lock table
    thread,         \* client thread -> position in the handler it runs
    uuid,           \* number of ids handed out by generate_uuid
    budget,         \* client operations that may still be started
    chunk_servers,  \* server id -> ChunkServer (local index, disk, used)
    allocated,      \* history: the ids of the new inodes proposed, in order
    last_put,       \* history: path -> content of the last successful put
    upload_path,    \* history: upload id -> path and size given to init_upload
    now,            \* datetime.now(), in hours
    ev              \* history: the call that returned in the last step

vars == <<nodes, thread, uuid, budget, chunk_servers, allocated, last_put,
         upload_path, now, ev>>

Threads == {"c1", "c2"}
Names == {"a", "b"}
Paths == {<<"a">>, <<"a", "b">>}
Sizes == {0, CHUNK_SIZE + 1}

\* Chunk contents are tokens: 0 is the empty byte string, DataLen gives the
\* number of bytes of a token, a local file is the sequence of its
\* CHUNK_SIZE blocks.
Data == 0 .. 3
DataLen(d) == CASE d = 0 -> 0 [] d = 2 -> CHUNK_SIZE [] OTHER -> 1
LocalFiles == {<<1>>, <<2, 3>>}
RECURSIVE FileSize(_)
FileSize(file) == IF file = <<>> THEN 0 ELSE DataLen(Head(file)) + FileSize(Tail(file))
\* f.read(CHUNK_SIZE) of block number i
ReadBlock(file, i) == IF i < Len(file) THEN file[i + 1] ELSE 0
\* SHA-256 of a token: an injection into the checksums
sha256(d) == 1000 + d
ChecksumLists == {<<sha256(1)>>, <<sha256(2), sha256(3)>>}
NoFile == <<0>>

IdleThread == [pc |-> "idle", op |-> "", node |-> "", path |-> <<>>,
               parent_id |-> 0, name |-> "", existing_id |-> 0,
               inode |-> NoInode, session |-> NoSession, checksums |-> <<>>,
               i |-> 0, file |-> <<>>]
NoEvent == [type |-> "", c |-> "", node |-> "", ok |-> FALSE, path |-> <<>>,
            upload_id |-> 0, inode_id |-> 0, checksums |-> <<>>, size |-> 0,
            value |-> 0, acks |-> 0,
            propose |-> "", pnode |-> "", pindex |-> -1,
            error |-> "", result |-> <<>>,
            image |-> [size |-> 0, blocks |-> {}], failed |-> -1, servers |-> <<>>,
            server_id |-> "",
            request |-> [term |-> 0, candidate_id |-> "", last_log_index |-> -1,
                         last_log_term |-> 0, leader_id |-> "", prev_log_index |-> -1,
                         prev_log_term |-> 0, entries |-> <<>>, leader_commit |-> -1],
            before |-> <<>>, received |-> {}]
\* the event e of a step in which node n called propose with result r
Proposed(e, n, r) ==
    [e EXCEPT !.propose = r.ret, !.pnode = n,
              !.pindex = IF r.ret = "NotLeader" THEN -1 ELSE Len(r.N[n].log) - 1]
Event(type, c, ok) == [NoEvent EXCEPT !.type = type, !.c = c, !.ok = ok,
                                      !.node = thread[c].node,
                                      !.path = thread[c].path]

\* ------------------------------------------------------------ path resolution
RECURSIVE resolve_from_active(_, _, _, _)
\* a resolution that stops at every inode that is not ACTIVE
resolve_from_active(s, path, i, current_inode_id) ==
    IF i > Len(path) THEN get_inode(s, current_inode_id)
    ELSE LET child_id == get_child(s, current_inode_id, path[i])
         IN IF child_id = 0 THEN NoInode
            ELSE LET inode == get_inode(s, child_id)
                 IN IF inode = NoInode \/ inode.status # ACTIVE THEN NoInode
                    ELSE resolve_from_active(s, path, i + 1, child_id)

RECURSIVE resolve_from(_, _, _, _)
resolve_from(s, path, i, current_inode_id) ==
    IF i > Len(path) THEN get_inode(s, current_inode_id)
    ELSE LET child_id == get_child(s, current_inode_id, path[i])
         IN IF child_id = 0 THEN NoInode
            ELSE LET inode == get_inode(s, child_id)
                 IN IF inode = NoInode \/ inode.status = DELETED THEN NoInode
                    ELSE resolve_from(s, path, i + 1, child_id)

resolve_path(s, path) ==
    IF path = <<>> THEN get_inode(s, ROOT_INODE_ID)
    ELSE resolve_from(s, path, 1, ROOT_INODE_ID)

\* _resolve_parent: "/" splits into the single part ""
resolve_parent(s, path) ==
    IF path = <<>> THEN [parent |-> resolve_path(s, <<>>), name |-> ""]
    ELSE [parent |-> resolve_path(s, SubSeq(path, 1, Len(path) - 1)),
          name |-> path[Len(path)]]

\* ------------------------------------------------------------ placement
ONLINE == "ONLINE"
OFFLINE == "OFFLINE"
DRAINING == "DRAINING"
\* a row of the chunk server registry; the address is left out
ChunkServer(server_id, capacity, used, status, last_heartbeat, zone) ==
    [server_id |-> server_id, capacity |-> capacity, used |-> used,
     status |-> status, last_heartbeat |-> last_heartbeat, zone |-> zone]
NoServer == ChunkServer("", 0, 0, "", 0, "")
ServerName(i) == CASE i = 0 -> "server-0" [] i = 1 -> "server-1" [] OTHER -> "server-2"
available(server) == server.capacity - server.used

\* list.sort(key=available, reverse=True): stable, descending
RECURSIVE insert_by_available(_, _)
insert_by_available(sorted, server) ==
    IF sorted = <<>> THEN <<server>>
    ELSE IF available(Head(sorted)) >= available(server)
         THEN <<Head(sorted)>> \o insert_by_available(Tail(sorted), server)
         ELSE <<server>> \o sorted
RECURSIVE sort_by_available(_)
sort_by_available(servers) ==
    IF servers = <<>> THEN <<>>
    ELSE insert_by_available(sort_by_available(SubSeq(servers, 1, Len(servers) - 1)),
                             servers[Len(servers)])

RECURSIVE select_distinct_zones(_, _, _, _, _)
select_distinct_zones(servers, i, selected, zones_used, count) ==
    IF i > Len(servers) \/ Len(selected) >= count THEN selected
    ELSE IF servers[i].zone \notin zones_used \/ Len(selected) < count
         THEN select_distinct_zones(servers, i + 1, Append(selected, servers[i].server_id),
                                    zones_used \cup {servers[i].zone}, count)
         ELSE select_distinct_zones(servers, i + 1, selected, zones_used, count)
RECURSIVE select_fill(_, _, _, _)
select_fill(servers, i, selected, count) ==
    IF i > Len(servers) \/ Len(selected) >= count THEN selected
    ELSE IF \A j \in DOMAIN selected : selected[j] # servers[i].server_id
         THEN select_fill(servers, i + 1, Append(selected, servers[i].server_id), count)
         ELSE select_fill(servers, i + 1, selected, count)

get_server(s, server_id) ==
    IF \E i \in DOMAIN s.servers : s.servers[i].server_id = server_id
    THEN s.servers[CHOOSE i \in DOMAIN s.servers : s.servers[i].server_id = server_id]
    ELSE NoServer
\* a put under server:<id>: a key that exists keeps its place in the dict
register_server(s, server) ==
    IF get_server(s, server.server_id) = NoServer
    THEN [s EXCEPT !.servers = Append(@, server)]
    ELSE [s EXCEPT !.servers =
             [i \in DOMAIN @ |-> IF @[i].server_id = server.server_id
                                 THEN server ELSE @[i]]]

list_servers(s, status) ==
    SelectSeq(s.servers, LAMBDA server : status = None \/ server.status = status)

select_chunk_servers(s, count) ==
    LET servers == list_servers(s, ONLINE)
    IN IF servers = <<>> THEN [i \in 1 .. count |-> ServerName(i - 1)]
       ELSE LET sorted == sort_by_available(servers)
            IN select_fill(sorted, 1,
                  select_distinct_zones(sorted, 1, <<>>, {}, count), count)

RECURSIVE allocate_chunks(_, _, _, _)
allocate_chunks(s, num_chunks, i, first_uuid) ==
    IF i >= num_chunks THEN <<>>
    ELSE <<[chunk_index |-> i, chunk_id |-> first_uuid + i,
            servers |-> select_chunk_servers(s, REPLICATION_FACTOR)]>>
         \o allocate_chunks(s, num_chunks, i + 1, first_uuid)

num_chunks_of(size) == Max(1, (size + CHUNK_SIZE - 1) \div CHUNK_SIZE)

\* ------------------------------------------------------------ locks
lock_free(n, parent_id) == parent_id \notin nodes[n].locks
acquire(nd, parent_id) == [nd EXCEPT !.locks = @ \cup {parent_id}]
release(nd, parent_id) == [nd EXCEPT !.locks = @ \ {parent_id}]

\* a write to path: the content of an earlier put is no longer the last write
Touch(path) == [p \in DOMAIN last_put |-> IF p = path THEN NoFile ELSE last_put[p]]
PathOf(upload_id) == data_get(upload_path, upload_id, [path |-> <<>>, size |-> 0]).path
SizeOf(upload_id) == data_get(upload_path, upload_id, [path |-> <<>>, size |-> 0]).size

\* ------------------------------------------------------------ returns
\* the handler of thread c returns (ok) or raises (~ok); a put whose commit
\* raised goes on to abort_upload
Return(c, e) ==
    /\ thread' = [thread EXCEPT ![c] =
          IF thread[c].op = "put" /\ ~e.ok /\ thread[c].pc \in {"cu_begin", "cu_chunk", "cu_finish"}
          THEN [@ EXCEPT !.pc = "ab_begin"]
          ELSE IdleThread]
    /\ ev' = e

Step(c, t) ==
    /\ thread' = [thread EXCEPT ![c] = t]
    /\ ev' = NoEvent

\* a step that called propose on node n with result r and goes on
StepP(c, t, n, r) ==
    /\ thread' = [thread EXCEPT ![c] = t]
    /\ ev' = Proposed(NoEvent, n, r)

Begin(c, n, op, path) ==
    /\ thread[c].pc = "idle"
    /\ budget > 0
    /\ budget' = budget - 1
    /\ n \in DOMAIN nodes

\* ============================================================ MetadataService
\* Every handler is a sequence of steps of one client thread; a step ends at
\* a lock acquisition or after a propose.

\* ------------------------------------------------------------ create_directory
CreateDirectoryBegin(c, n, path) ==
    /\ Begin(c, n, "create_directory", path)
    /\ LET s == nodes[n].storage
           rp == resolve_parent(s, path)
           t == [IdleThread EXCEPT !.op = "create_directory", !.node = n,
                                   !.path = path]
           raise == [NoEvent EXCEPT !.type = "create_directory", !.c = c,
                                    !.node = n, !.path = path]
       IN IF \/ nodes[n].role # LEADER
             \/ rp.parent = NoInode
             \/ rp.parent.type # DIRECTORY
             \/ get_child(s, rp.parent.inode_id, rp.name) # 0
          THEN thread' = thread /\ ev' = raise
          ELSE Step(c, [t EXCEPT !.pc = "cd_lock", !.parent_id = rp.parent.inode_id,
                                 !.name = rp.name])
    /\ UNCHANGED <<nodes, uuid, chunk_servers, allocated, last_put, upload_path, now>>

CreateDirectoryLock(c) ==
    /\ thread[c].pc = "cd_lock"
    /\ LET n == thread[c].node
           t == thread[c]
       IN /\ lock_free(n, t.parent_id)
          /\ \E net \in [PeerSet(nodes[n]) -> RpcOutcomes] :
               LET inode_id == nodes[n].storage.next_inode_id
                   new_inode == [inode_id |-> inode_id, parent_id |-> t.parent_id,
                                 name |-> t.name, type |-> DIRECTORY, size |-> 0,
                                 status |-> ACTIVE, version |-> 1]
                   N1 == [nodes EXCEPT ![n] = acquire(@, t.parent_id),
                                       ![n].storage.next_inode_id = @ + 1]
               IN \E r \in {propose(N1, n, CreateInodeCmd(new_inode), net)} :
                  /\ allocated' = IF r.ret = "NotLeader" THEN allocated
                                  ELSE Append(allocated, inode_id)
                  /\ IF r.ret = "NotLeader"
                     THEN /\ nodes' = [r.N EXCEPT ![n] = release(@, t.parent_id)]
                          /\ Return(c, Proposed(Event("create_directory", c, FALSE), n, r))
                     ELSE /\ nodes' = r.N
                          /\ StepP(c, [t EXCEPT !.pc = "cd_add", !.inode = new_inode], n, r)
          /\ last_put' = Touch(t.path)
    /\ UNCHANGED <<uuid, budget, chunk_servers, upload_path, now>>

CreateDirectoryAdd(c) ==
    /\ thread[c].pc = "cd_add"
    /\ LET n == thread[c].node
           t == thread[c]
       IN \E net \in [PeerSet(nodes[n]) -> RpcOutcomes] :
            \E r \in {propose(nodes, n,
                            AddChildCmd(t.parent_id, t.name, t.inode.inode_id), net)} :
               /\ nodes' = [r.N EXCEPT ![n] = release(@, t.parent_id)]
               /\ Return(c, Proposed([Event("create_directory", c, r.ret # "NotLeader")
                                         EXCEPT !.inode_id = t.inode.inode_id], n, r))
    /\ UNCHANGED <<uuid, budget, chunk_servers, allocated, last_put, upload_path, now>>

\* ------------------------------------------------------------ init_upload
InitUploadBegin(c, n, op, path, size, file) ==
    /\ Begin(c, n, op, path)
    /\ LET s == nodes[n].storage
           rp == resolve_parent(s, path)
           t == [IdleThread EXCEPT !.op = op, !.node = n, !.path = path,
                                   !.file = file, !.inode.size = size]
           raise == [NoEvent EXCEPT !.type = op, !.c = c, !.node = n, !.path = path]
       IN IF nodes[n].role # LEADER \/ rp.parent = NoInode
          THEN thread' = thread /\ ev' = raise
          ELSE Step(c, [t EXCEPT !.pc = "iu_lock", !.parent_id = rp.parent.inode_id,
                                 !.name = rp.name,
                                 !.existing_id = get_child(s, rp.parent.inode_id, rp.name)])
    /\ UNCHANGED <<nodes, uuid, chunk_servers, allocated, last_put, upload_path, now>>

\* the session is stored and returned; a put goes on to upload the chunks
InitUploadReturn(c, t, r, session) ==
    /\ nodes' = [r.N EXCEPT ![t.node] =
                    release([@ EXCEPT !.storage = put_upload_session(@, session)],
                            t.parent_id)]
    /\ upload_path' = data_put(upload_path, session.upload_id,
                               [path |-> t.path, size |-> t.inode.size])
    /\ IF t.op = "put"
       THEN StepP(c, [t EXCEPT !.pc = "put_chunks", !.session = session], t.node, r)
       ELSE Return(c, Proposed([Event("init_upload", c, TRUE) EXCEPT
                                  !.upload_id = session.upload_id,
                                  !.inode_id = session.inode_id,
                                  !.size = t.inode.size], t.node, r))

InitUploadLock(c) ==
    /\ thread[c].pc = "iu_lock"
    /\ LET n == thread[c].node
           t == thread[c]
           s == nodes[n].storage
           existing == get_inode(s, t.existing_id)
           num_chunks == num_chunks_of(t.inode.size)
           chunks == allocate_chunks(s, num_chunks, 0, uuid + 1)
       IN /\ lock_free(n, t.parent_id)
          /\ IF t.existing_id # 0 /\ existing = NoInode
             THEN \* existing.version on None raises
                  /\ Return(c, Event(t.op, c, FALSE))
                  /\ UNCHANGED <<nodes, uuid, allocated, upload_path>>
             ELSE \E net \in [PeerSet(nodes[n]) -> RpcOutcomes] :
               LET inode_id == IF t.existing_id # 0 THEN t.existing_id
                               ELSE s.next_inode_id
                   version == IF t.existing_id # 0 THEN existing.version + 1 ELSE 1
                   inode == [inode_id |-> inode_id, parent_id |-> t.parent_id,
                             name |-> t.name, type |-> FILE, size |-> t.inode.size,
                             status |-> UPLOADING, version |-> version]
                   N1 == IF t.existing_id # 0 THEN nodes
                         ELSE [nodes EXCEPT ![n].storage.next_inode_id = @ + 1]
                   session == [upload_id |-> uuid + num_chunks + 1,
                               inode_id |-> inode_id, version |-> version,
                               chunks |-> chunks, status |-> PENDING,
                               expires_at |-> now + EXPIRES_HOURS]
               IN \E r \in {propose(N1, n, CreateInodeCmd(inode), net)} :
                  /\ allocated' = IF t.existing_id # 0 \/ r.ret = "NotLeader" THEN allocated
                                  ELSE Append(allocated, inode_id)
                  /\ IF r.ret = "NotLeader"
                     THEN /\ nodes' = r.N
                          /\ uuid' = uuid + num_chunks
                          /\ upload_path' = upload_path
                          /\ Return(c, Proposed(Event(t.op, c, FALSE), n, r))
                     ELSE IF t.existing_id # 0
                     THEN /\ uuid' = uuid + num_chunks + 1
                          /\ InitUploadReturn(c, [t EXCEPT !.inode = inode], r, session)
                     ELSE /\ uuid' = uuid + num_chunks
                          /\ nodes' = [r.N EXCEPT ![n] = acquire(@, t.parent_id)]
                          /\ upload_path' = upload_path
                          /\ StepP(c, [t EXCEPT !.pc = "iu_add", !.inode = inode,
                                                !.session = [session EXCEPT !.upload_id = 0]],
                                   n, r)
          /\ last_put' = Touch(t.path)
    /\ UNCHANGED <<budget, chunk_servers, now>>

InitUploadAdd(c) ==
    /\ thread[c].pc = "iu_add"
    /\ LET n == thread[c].node
           t == thread[c]
       IN \E net \in [PeerSet(nodes[n]) -> RpcOutcomes] :
            \E r \in {propose(nodes, n,
                            AddChildCmd(t.parent_id, t.name, t.inode.inode_id), net)} :
               IF r.ret = "NotLeader"
               THEN /\ nodes' = [r.N EXCEPT ![n] = release(@, t.parent_id)]
                    /\ uuid' = uuid
                    /\ upload_path' = upload_path
                    /\ Return(c, Proposed(Event(t.op, c, FALSE), n, r))
               ELSE /\ uuid' = uuid + 1
                    /\ InitUploadReturn(c, t, r,
                          [t.session EXCEPT !.upload_id = uuid + 1,
                                            !.expires_at = now + EXPIRES_HOURS])
    /\ UNCHANGED <<budget, chunk_servers, allocated, last_put, now>>

\* ------------------------------------------------------------ commit_upload
\* the entry of commit_upload, for the session id and checksums given
CommitUploadEnter(c, n, upload_id, chunk_checksums) ==
    LET s == nodes[n].storage
        session == get_upload_session(s, upload_id)
        t == [thread[c] EXCEPT !.node = n, !.pc = "cu_begin"]
        raise == [NoEvent EXCEPT !.type = "commit_upload", !.c = c, !.node = n,
                                 !.upload_id = upload_id,
                                 !.path = PathOf(upload_id)]
    IN IF \/ nodes[n].role # LEADER
          \/ session = NoSession
          \/ Len(chunk_checksums) # Len(session.chunks)
       THEN /\ thread' = [thread EXCEPT ![c] =
                             IF t.op = "put" THEN [t EXCEPT !.pc = "ab_begin"]
                             ELSE IdleThread]
            /\ ev' = raise
       ELSE Step(c, [t EXCEPT !.pc = "cu_chunk", !.session = session,
                              !.checksums = chunk_checksums, !.i = 0,
                              !.inode = get_inode(s, session.inode_id)])

CommitUploadBegin(c, n, upload_id, chunk_checksums) ==
    /\ Begin(c, n, "commit_upload", <<>>)
    /\ CommitUploadEnter(c, n, upload_id, chunk_checksums)
    /\ UNCHANGED <<nodes, uuid, chunk_servers, allocated, last_put, upload_path, now>>

CommitEvent(c, ok) ==
    [Event("commit_upload", c, ok) EXCEPT
        !.upload_id = thread[c].session.upload_id,
        !.path = PathOf(thread[c].session.upload_id),
        !.checksums = thread[c].checksums]

CommitUploadChunk(c) ==
    /\ thread[c].pc = "cu_chunk"
    /\ thread[c].i < Len(thread[c].session.chunks)
    /\ LET n == thread[c].node
           t == thread[c]
           i == t.i
           allocation == t.session.chunks[i + 1]
           last == (i = Len(t.session.chunks) - 1)
           chunk_size == IF last THEN t.inode.size - (i * CHUNK_SIZE) ELSE CHUNK_SIZE
           chunk == [chunk_id |-> allocation.chunk_id, inode_id |-> t.session.inode_id,
                     version |-> t.session.version, chunk_index |-> i,
                     size |-> chunk_size, checksum |-> t.checksums[i + 1],
                     servers |-> allocation.servers]
       IN IF last /\ t.inode = NoInode
          THEN \* inode.size on None raises
               /\ Return(c, CommitEvent(c, FALSE))
               /\ UNCHANGED <<nodes, last_put>>
          ELSE \E net \in [PeerSet(nodes[n]) -> RpcOutcomes] :
                 \E r \in {propose(nodes, n, PutChunkCmd(chunk), net)} :
                    /\ nodes' = r.N
                    /\ last_put' = Touch(PathOf(t.session.upload_id))
                    /\ IF r.ret = "NotLeader"
                       THEN Return(c, Proposed(CommitEvent(c, FALSE), n, r))
                       ELSE StepP(c, [t EXCEPT !.i = i + 1], n, r)
    /\ UNCHANGED <<uuid, budget, chunk_servers, allocated, upload_path, now>>

CommitUploadFinish(c) ==
    /\ thread[c].pc = "cu_chunk"
    /\ thread[c].i = Len(thread[c].session.chunks)
    /\ LET n == thread[c].node
           t == thread[c]
           path == PathOf(t.session.upload_id)
       IN \E net \in [PeerSet(nodes[n]) -> RpcOutcomes] :
            \E r \in {propose(nodes, n,
                            CreateInodeCmd([t.inode EXCEPT !.status = ACTIVE]), net)} :
               IF r.ret = "NotLeader"
               THEN /\ nodes' = r.N
                    /\ last_put' = Touch(path)
                    /\ Return(c, Proposed(CommitEvent(c, FALSE), n, r))
               ELSE /\ nodes' = [r.N EXCEPT ![n].storage =
                                    delete_upload_session(@, t.session.upload_id)]
                    /\ last_put' = IF t.op = "put"
                                   THEN [last_put EXCEPT ![path] = t.file]
                                   ELSE Touch(path)
                    /\ IF t.op = "put"
                       THEN /\ thread' = [thread EXCEPT ![c] = IdleThread]
                            /\ ev' = Proposed([CommitEvent(c, TRUE) EXCEPT !.type = "put"],
                                            n, r)
                       ELSE Return(c, Proposed(CommitEvent(c, TRUE), n, r))
    /\ UNCHANGED <<uuid, budget, chunk_servers, allocated, upload_path, now>>

\* ------------------------------------------------------------ abort_upload
AbortUploadEnter(c, n, upload_id) ==
    LET s == nodes[n].storage
        session == get_upload_session(s, upload_id)
        inode == get_inode(s, session.inode_id)
        t == [thread[c] EXCEPT !.node = n]
        e == [NoEvent EXCEPT !.type = IF t.op = "put" THEN "put" ELSE "abort_upload",
                             !.c = c, !.node = n, !.upload_id = upload_id,
                             !.ok = (t.op # "put"), !.path = PathOf(upload_id)]
    IN IF session = NoSession
       THEN /\ thread' = [thread EXCEPT ![c] = IdleThread]
            /\ ev' = e
            /\ UNCHANGED <<nodes, last_put>>
       ELSE IF inode # NoInode /\ inode.status = UPLOADING /\ inode.version = 1
       THEN /\ nodes' = [nodes EXCEPT ![n].storage = delete_inode(@, session.inode_id)]
            /\ last_put' = Touch(PathOf(upload_id))
            /\ Step(c, [t EXCEPT !.pc = "ab_edge", !.session = session,
                                 !.inode = inode])
       ELSE /\ nodes' = [nodes EXCEPT ![n].storage =
                            delete_upload_session(@, upload_id)]
            /\ last_put' = Touch(PathOf(upload_id))
            /\ thread' = [thread EXCEPT ![c] = IdleThread]
            /\ ev' = e

AbortUploadBegin(c, n, upload_id) ==
    /\ Begin(c, n, "abort_upload", <<>>)
    /\ AbortUploadEnter(c, n, upload_id)
    /\ UNCHANGED <<uuid, chunk_servers, allocated, upload_path, now>>

AbortUploadEdge(c) ==
    /\ thread[c].pc = "ab_edge"
    /\ LET n == thread[c].node
           t == thread[c]
       IN /\ nodes' = [nodes EXCEPT ![n].storage =
                          delete_upload_session(
                             remove_child(@, t.inode.parent_id, t.inode.name),
                             t.session.upload_id)]
          /\ thread' = [thread EXCEPT ![c] = IdleThread]
          /\ ev' = [NoEvent EXCEPT !.type = IF t.op = "put" THEN "put" ELSE "abort_upload",
                                   !.c = c, !.node = n,
                                   !.upload_id = t.session.upload_id,
                                   !.ok = (t.op # "put"),
                                   !.path = PathOf(t.session.upload_id),
                                   !.inode_id = t.inode.inode_id]
    /\ UNCHANGED <<uuid, budget, chunk_servers, allocated, last_put, upload_path, now>>

\* ------------------------------------------------------------ delete
\* delete and delete_recursive up to the lock: ensure_leader and the two
\* path resolutions
DeleteBegin(c, n, op, path) ==
    /\ Begin(c, n, op, path)
    /\ LET s == nodes[n].storage
           rp == resolve_parent(s, path)
           inode == resolve_path(s, path)
           t == [IdleThread EXCEPT !.op = op, !.node = n, !.path = path]
           raise == [NoEvent EXCEPT !.type = op, !.c = c, !.node = n, !.path = path]
       IN IF nodes[n].role # LEADER
          THEN thread' = thread /\ ev' = [raise EXCEPT !.error = "NotLeader"]
          ELSE IF op = "delete" /\ rp.parent = NoInode
          THEN thread' = thread /\ ev' = [raise EXCEPT !.error = "ParentNotFound"]
          ELSE IF inode = NoInode \/ rp.parent = NoInode
          THEN thread' = thread /\ ev' = [raise EXCEPT !.error = "NotFound"]
          ELSE Step(c, [t EXCEPT !.pc = "del_lock", !.parent_id = rp.parent.inode_id,
                                 !.name = rp.name, !.inode = inode])
    /\ UNCHANGED <<nodes, uuid, chunk_servers, allocated, last_put, upload_path, now>>

\* the lock of the parent is taken; delete looks for children of a directory
DeleteLock(c) ==
    /\ thread[c].pc = "del_lock"
    /\ LET n == thread[c].node
           t == thread[c]
       IN /\ lock_free(n, t.parent_id)
          /\ IF /\ t.op = "delete"
                /\ t.inode.type = DIRECTORY
                /\ list_children(nodes[n].storage, t.inode.inode_id) # {}
             THEN /\ nodes' = nodes
                  /\ Return(c, [Event(t.op, c, FALSE) EXCEPT
                                   !.error = "DirectoryNotEmpty",
                                   !.inode_id = t.inode.inode_id])
             ELSE /\ nodes' = [nodes EXCEPT ![n] = acquire(@, t.parent_id)]
                  /\ Step(c, [t EXCEPT !.pc = "del_mark"])
    /\ UNCHANGED <<uuid, budget, chunk_servers, allocated, last_put, upload_path, now>>

\* inode.status = DELETED is proposed
DeleteMark(c) ==
    /\ thread[c].pc = "del_mark"
    /\ LET n == thread[c].node
           t == thread[c]
       IN \E net \in [PeerSet(nodes[n]) -> RpcOutcomes] :
            \E r \in {propose(nodes, n,
                            CreateInodeCmd([t.inode EXCEPT !.status = DELETED]), net)} :
               IF r.ret = "NotLeader"
               THEN /\ nodes' = [r.N EXCEPT ![n] = release(@, t.parent_id)]
                    /\ Return(c, Proposed([Event(t.op, c, FALSE) EXCEPT
                                              !.error = "NotLeader"], n, r))
               ELSE /\ nodes' = r.N
                    /\ StepP(c, [t EXCEPT !.pc = "del_edge"], n, r)
    /\ last_put' = Touch(thread[c].path)
    /\ UNCHANGED <<uuid, budget, chunk_servers, allocated, upload_path, now>>

\* _queue_for_gc and _queue_subtree_for_gc
queue_for_gc(nd, kind, inode_id) ==
    [nd EXCEPT !.gc_queue = Append(@, <<kind, inode_id>>)]

\* the queue of the node after a delete that got to its end
queued_by(nd, t) ==
    IF t.op = "delete_recursive" THEN queue_for_gc(nd, "subtree", t.inode.inode_id)
    ELSE IF t.inode.type = FILE THEN queue_for_gc(nd, "file", t.inode.inode_id)
    ELSE nd

\* the edge is removed, the inode is queued for the collector
DeleteEdge(c) ==
    /\ thread[c].pc = "del_edge"
    /\ LET n == thread[c].node
           t == thread[c]
       IN \E net \in [PeerSet(nodes[n]) -> RpcOutcomes] :
            \E r \in {propose(nodes, n, RemoveChildCmd(t.parent_id, t.name), net)} :
               IF r.ret = "NotLeader"
               THEN /\ nodes' = [r.N EXCEPT ![n] = release(@, t.parent_id)]
                    /\ Return(c, Proposed([Event(t.op, c, FALSE) EXCEPT
                                              !.error = "NotLeader"], n, r))
               ELSE /\ nodes' = [r.N EXCEPT ![n] = release(queued_by(@, t), t.parent_id)]
                    /\ Return(c, Proposed([Event(t.op, c, TRUE) EXCEPT
                                              !.inode_id = t.inode.inode_id], n, r))
    /\ UNCHANGED <<uuid, budget, chunk_servers, allocated, last_put, upload_path, now>>

\* ------------------------------------------------------------ list_directory
\* sorted(result, key=lambda x: x.name): the order of the names in use
name_key(name) == CASE name = "a" -> 1 [] name = "b" -> 2 [] OTHER -> 0

RECURSIVE sort_by_name(_, _)
\* the inodes of the edges in keys, by ascending name
sort_by_name(s, keys) ==
    IF keys = {} THEN <<>>
    ELSE LET k == CHOOSE x \in keys : \A y \in keys :
                     \/ name_key(get_inode(s, s.children[x]).name)
                            < name_key(get_inode(s, s.children[y]).name)
                     \/ /\ name_key(get_inode(s, s.children[x]).name)
                              = name_key(get_inode(s, s.children[y]).name)
                        /\ name_key(x[2]) <= name_key(y[2])
         IN <<get_inode(s, s.children[k])>> \o sort_by_name(s, keys \ {k})

\* every edge under the directory whose inode is there
all_children(s, inode_id) ==
    {k \in list_children(s, inode_id) : get_inode(s, s.children[k]) # NoInode}

\* the edges under the directory whose inode is there and ACTIVE
active_children(s, inode_id) ==
    {k \in list_children(s, inode_id) :
        /\ get_inode(s, s.children[k]) # NoInode
        /\ get_inode(s, s.children[k]).status = ACTIVE}

\* list_directory once read_index has returned ri: ok = FALSE when it raises
list_after_read(ri, n, path) ==
    IF ri.raised \/ ri.blocked THEN [ok |-> FALSE, result |-> <<>>]
    ELSE IF resolve_path(ri.N[n].storage, path) = NoInode
    THEN [ok |-> FALSE, result |-> <<>>]
    ELSE IF resolve_path(ri.N[n].storage, path).type # DIRECTORY
    THEN [ok |-> FALSE, result |-> <<>>]
    ELSE [ok |-> TRUE,
          result |-> sort_by_name(ri.N[n].storage,
                        active_children(ri.N[n].storage,
                            resolve_path(ri.N[n].storage, path).inode_id))]

list_directory(N, n, path, net) == list_after_read(read_index(N, n, net), n, path)

\* list_directory called on node n
ListDirectory(n, path) ==
    /\ n \in DOMAIN nodes
    /\ \E net \in [PeerSet(nodes[n]) -> RpcOutcomes] :
          \E ri \in {read_index(nodes, n, net)} :
             \E l \in {list_after_read(ri, n, path)} :
                /\ ~ri.blocked
                /\ nodes' = ri.N
                /\ ev' = [NoEvent EXCEPT !.type = "list_directory", !.node = n,
                                         !.path = path, !.ok = l.ok,
                                         !.result = l.result]
    /\ UNCHANGED <<thread, uuid, budget, chunk_servers, allocated, last_put,
                   upload_path, now>>

\* ============================================================ ChunkServer
NoInfo == [size |-> 0, checksum |-> 0]
NewChunkServer == [chunks |-> <<>>, disk |-> <<>>, used |-> 0]

\* write_chunk: ok = FALSE when ChecksumMismatchError is raised
write_chunk(cs, chunk_id, data, checksum) ==
    IF sha256(data) # checksum THEN [cs |-> cs, ok |-> FALSE]
    ELSE [cs |-> [cs EXCEPT !.disk = data_put(@, chunk_id, data),
                            !.chunks = data_put(@, chunk_id,
                                          [size |-> DataLen(data), checksum |-> checksum]),
                            !.used = @ + DataLen(data)],
          ok |-> TRUE]

\* handle_upload: the local write; _replicate_to_chain only logs
handle_upload(cs, request) ==
    write_chunk(cs, request.chunk_id, request.data, request.checksum)

\* handle_download: ok = FALSE when read_chunk or the index lookup raises
handle_download(cs, chunk_id) ==
    IF chunk_id \notin DOMAIN cs.disk THEN [ok |-> FALSE, data |-> 0]
    ELSE IF chunk_id \in DOMAIN cs.chunks
            /\ sha256(cs.disk[chunk_id]) # cs.chunks[chunk_id].checksum
    THEN [ok |-> FALSE, data |-> 0]
    ELSE IF chunk_id \notin DOMAIN cs.chunks THEN [ok |-> FALSE, data |-> 0]
    ELSE [ok |-> TRUE, data |-> cs.disk[chunk_id]]

\* ============================================================ DFSClient
RECURSIVE upload_chunks(_, _, _, _, _)
\* the loop of put over session.chunks, from chunk number i on
upload_chunks(CS, session, file, i, checksums) ==
    IF i >= Len(session.chunks) THEN [CS |-> CS, ok |-> TRUE, checksums |-> checksums]
    ELSE LET allocation == session.chunks[i + 1]
             data == ReadBlock(file, i)
             checksum == sha256(data)
             primary_server == allocation.servers[1]
         IN IF primary_server \notin DOMAIN CS
            THEN [CS |-> CS, ok |-> FALSE, checksums |-> Append(checksums, checksum)]
            ELSE LET w == handle_upload(CS[primary_server],
                             [chunk_id |-> allocation.chunk_id, data |-> data,
                              checksum |-> checksum,
                              replica_servers |-> Tail(allocation.servers)])
                 IN IF ~w.ok
                    THEN [CS |-> CS, ok |-> FALSE, checksums |-> Append(checksums, checksum)]
                    ELSE upload_chunks([CS EXCEPT ![primary_server] = w.cs], session,
                                       file, i + 1, Append(checksums, checksum))

PutChunks(c) ==
    /\ thread[c].pc = "put_chunks"
    /\ LET t == thread[c]
           u == upload_chunks(chunk_servers, t.session, t.file, 0, <<>>)
       IN /\ chunk_servers' = u.CS
          /\ Step(c, [t EXCEPT !.pc = IF u.ok THEN "put_commit" ELSE "ab_begin",
                               !.checksums = u.checksums])
    /\ UNCHANGED <<nodes, uuid, budget, allocated, last_put, upload_path, now>>

PutCommit(c) ==
    /\ thread[c].pc = "put_commit"
    /\ CommitUploadEnter(c, thread[c].node, thread[c].session.upload_id,
                         thread[c].checksums)
    /\ UNCHANGED <<nodes, uuid, budget, chunk_servers, allocated, last_put, upload_path, now>>

PutAbort(c) ==
    /\ thread[c].pc = "ab_begin"
    /\ AbortUploadEnter(c, thread[c].node, thread[c].session.upload_id)
    /\ UNCHANGED <<uuid, budget, chunk_servers, allocated, upload_path, now>>

\* get_file_metadata: ok = FALSE when it raises
get_file_metadata(N, n, path, net) ==
    LET ri == read_index(N, n, net)
        s == ri.N[n].storage
        inode == resolve_path(s, path)
        fail == [ok |-> FALSE, inode |-> NoInode, chunks |-> <<>>]
    IN IF ri.raised \/ ri.blocked THEN fail
       ELSE IF inode = NoInode THEN fail
       ELSE IF inode.type # FILE THEN fail
       ELSE IF inode.status # ACTIVE THEN fail
       ELSE [ok |-> TRUE, inode |-> inode,
             chunks |-> get_chunks(s, inode.inode_id, inode.version)]

RECURSIVE download_from_unchecked(_, _, _)
\* the first server of chunk.servers, from number j on, that returns bytes
download_from_unchecked(CS, chunk, j) ==
    IF j > Len(chunk.servers) THEN [ok |-> FALSE, data |-> 0, server |-> 0]
    ELSE LET server_id == chunk.servers[j]
             r == IF server_id \in DOMAIN CS
                  THEN handle_download(CS[server_id], chunk.chunk_id)
                  ELSE [ok |-> FALSE, data |-> 0]
         IN IF r.ok THEN [ok |-> TRUE, data |-> r.data, server |-> j]
            ELSE download_from_unchecked(CS, chunk, j + 1)

RECURSIVE download_from(_, _, _)
\* the first server of chunk.servers, from number j on, whose bytes hash to
\* the checksum of the metadata; server is its position in the list
download_from(CS, chunk, j) ==
    IF j > Len(chunk.servers) THEN [ok |-> FALSE, data |-> 0, server |-> 0]
    ELSE LET server_id == chunk.servers[j]
             r == IF server_id \in DOMAIN CS
                  THEN handle_download(CS[server_id], chunk.chunk_id)
                  ELSE [ok |-> FALSE, data |-> 0]
         IN IF r.ok /\ sha256(r.data) = chunk.checksum
            THEN [ok |-> TRUE, data |-> r.data, server |-> j]
            ELSE download_from(CS, chunk, j + 1)

\* A file on the client's disk: its size and the non-empty blocks written,
\* each at its byte offset.
Image(size, blocks) == [size |-> size, blocks |-> blocks]
LocalImage(file) ==
    Image(FileSize(file),
          {<<(i - 1) * CHUNK_SIZE, file[i]>> : i \in {j \in DOMAIN file : file[j] # 0}})

RECURSIVE get_loop(_, _, _, _)
\* failed holds the chunk index DownloadError is raised for
get_loop(CS, chunks, i, image) ==
    IF i >= Len(chunks) THEN [ok |-> TRUE, image |-> image, failed |-> {}]
    ELSE LET d == download_from(CS, chunks[i + 1], 1)
         IN IF ~d.ok THEN [ok |-> FALSE, image |-> image, failed |-> {i}]
            ELSE get_loop(CS, chunks, i + 1,
                    Image(image.size + DataLen(d.data),
                          IF d.data = 0 THEN image.blocks
                          ELSE image.blocks \cup {<<image.size, d.data>>}))

\* get: the chunks are written one after the other
get(N, n, CS, path, net) ==
    LET m == get_file_metadata(N, n, path, net)
    IN IF ~m.ok THEN [ok |-> FALSE, image |-> Image(0, {}), failed |-> {}]
       ELSE get_loop(CS, m.chunks, 0, Image(0, {}))

RECURSIVE get_parallel_loop(_, _, _, _)
get_parallel_loop(CS, chunks, i, image) ==
    IF i >= Len(chunks) THEN [ok |-> TRUE, image |-> image, failed |-> {}]
    ELSE LET d == download_from(CS, chunks[i + 1], 1)
         IN IF ~d.ok THEN [ok |-> FALSE, image |-> image, failed |-> {i}]
            ELSE get_parallel_loop(CS, chunks, i + 1,
                    Image(Max(image.size, i * CHUNK_SIZE + DataLen(d.data)),
                          IF d.data = 0 THEN image.blocks
                          ELSE image.blocks \cup {<<i * CHUNK_SIZE, d.data>>}))

\* the chunk indexes whose download_chunk raises DownloadError
failed_chunks(CS, chunks) ==
    {i \in 0 .. Len(chunks) - 1 : ~download_from(CS, chunks[i + 1], 1).ok}

\* get_parallel: the file is truncated to inode.size; the chunks are written,
\* chunk i at i * CHUNK_SIZE, once every download_chunk has returned; the
\* DownloadError of any failed one ends the call before that
get_parallel(N, n, CS, path, net) ==
    LET m == get_file_metadata(N, n, path, net)
    IN IF ~m.ok THEN [ok |-> FALSE, image |-> Image(0, {}), failed |-> {}]
       ELSE IF failed_chunks(CS, m.chunks) # {}
       THEN [ok |-> FALSE, image |-> Image(m.inode.size, {}),
             failed |-> failed_chunks(CS, m.chunks)]
       ELSE get_parallel_loop(CS, m.chunks, 0, Image(m.inode.size, {}))

\* the positions, in the server lists, of the servers the chunks are taken from
servers_used(CS, chunks) ==
    [i \in DOMAIN chunks |-> download_from(CS, chunks[i], 1).server]

\* get or get_parallel called by a client; r is what the call gives
Download(n, path, type, r) ==
    /\ \E f \in (IF r.failed = {} THEN {-1} ELSE r.failed) :
          ev' = [NoEvent EXCEPT !.type = type, !.node = n, !.path = path,
                                !.ok = r.ok, !.image = r.image, !.failed = f,
                                !.servers =
                                   servers_used(chunk_servers,
                                      get_file_metadata(nodes, n, path,
                                          [p \in PeerSet(nodes[n]) |-> "dropped"]).chunks)]
    /\ UNCHANGED <<nodes, thread, uuid, budget, chunk_servers, allocated, last_put,
                   upload_path, now>>

\* ============================================================ RaftNode steps
Start(n) ==
    /\ n \in DOMAIN nodes
    /\ ~nodes[n].started
    /\ nodes' = [nodes EXCEPT ![n] =
                    [(IF Len(@.peers) = 0 THEN become_leader(@) ELSE @)
                        EXCEPT !.started = TRUE]]
    /\ ev' = NoEvent
    /\ UNCHANGED <<thread, uuid, budget, chunk_servers, allocated, last_put, upload_path, now>>

\* the peers whose RPC server got the request
Received(net) == {p \in DOMAIN net : net[p] = "received"}

\* _run_election_timer: the timeout of a node that is not the leader expires
StartElection(n) ==
    /\ n \in DOMAIN nodes
    /\ nodes[n].started
    /\ nodes[n].role # LEADER
    /\ nodes[n].current_term < MaxTerm
    /\ \E net \in [PeerSet(nodes[n]) -> RpcOutcomes] :
          /\ nodes' = start_election(nodes, n, net)
          /\ ev' = [NoEvent EXCEPT !.type = "start_election", !.node = n,
                                   !.received = Received(net)]
    /\ UNCHANGED <<thread, uuid, budget, chunk_servers, allocated, last_put, upload_path, now>>

\* _run_heartbeat: the 50 ms tick of a leader
Heartbeat(n) ==
    /\ n \in DOMAIN nodes
    /\ nodes[n].started
    /\ nodes[n].role = LEADER
    /\ \E net \in [PeerSet(nodes[n]) -> RpcOutcomes] :
          /\ nodes' = send_heartbeats(nodes, n, net)
          /\ ev' = [NoEvent EXCEPT !.type = "send_heartbeats", !.node = n,
                                   !.received = Received(net)]
    /\ UNCHANGED <<thread, uuid, budget, chunk_servers, allocated, last_put, upload_path, now>>

\* a caller of read_index on node n
ReadIndex(n) ==
    /\ n \in DOMAIN nodes
    /\ \E net \in [PeerSet(nodes[n]) -> RpcOutcomes] :
          \E r \in {read_index(nodes, n, net)} :
             /\ ~r.blocked
             /\ nodes' = r.N
             /\ ev' = [NoEvent EXCEPT !.type = "read_index", !.node = n,
                                      !.ok = ~r.raised, !.value = r.value,
                                      !.acks = r.acks]
    /\ UNCHANGED <<thread, uuid, budget, chunk_servers, allocated, last_put, upload_path, now>>

\* ============================================================ collector steps
\* queue_deletion(inode_id) or queue_subtree_deletion(inode_id) called on the
\* collector of node n
QueueDeletion(n, inode_id) ==
    /\ n \in DOMAIN nodes
    /\ budget > 0
    /\ budget' = budget - 1
    /\ nodes' = [nodes EXCEPT ![n].gc = queue_deletion(@, inode_id, 0)]
    /\ ev' = [NoEvent EXCEPT !.type = "queue_deletion", !.node = n,
                             !.inode_id = inode_id]
    /\ UNCHANGED <<thread, uuid, chunk_servers, allocated, last_put, upload_path, now>>

\* _process_deletions: a round that finds the queue non-empty
ProcessDeletions(n) ==
    /\ n \in DOMAIN nodes
    /\ nodes[n].gc.deletion_queue # <<>>
    /\ \E d \in {process_deletion([s |-> nodes[n].storage, g |-> nodes[n].gc],
                                  least(nodes[n].gc.deletion_queue), now)} :
          nodes' = [nodes EXCEPT ![n].storage = d.s, ![n].gc = d.g]
    /\ ev' = [NoEvent EXCEPT !.type = "process_deletions", !.node = n]
    /\ UNCHANGED <<thread, uuid, budget, chunk_servers, allocated, last_put,
                   upload_path, now>>

\* _process_chunk_gc: a round that has an entry due or an entry to fetch
ProcessChunkGc(n) ==
    /\ n \in DOMAIN nodes
    /\ process_chunk_gc(nodes[n].gc, now) # nodes[n].gc
    /\ nodes' = [nodes EXCEPT ![n].gc = process_chunk_gc(@, now)]
    /\ ev' = [NoEvent EXCEPT !.type = "process_chunk_gc", !.node = n]
    /\ UNCHANGED <<thread, uuid, budget, chunk_servers, allocated, last_put,
                   upload_path, now>>

\* ============================================================ single node
ServerIds == {ServerName(0), ServerName(1), ServerName(2)}

InitCommon ==
    /\ thread = [c \in Threads |-> IdleThread]
    /\ uuid = 0
    /\ chunk_servers = [sid \in ServerIds |-> NewChunkServer]
    /\ allocated = <<>>
    /\ last_put = [p \in Paths |-> NoFile]
    /\ upload_path = <<>>
    /\ now = 0
    /\ ev = NoEvent

Init ==
    /\ nodes = [n \in {"n1"} |-> NewNode(n, <<>>)]
    /\ budget = MaxOps
    /\ InitCommon

CreateDirectory(c) == \E n \in DOMAIN nodes, path \in Paths : CreateDirectoryBegin(c, n, path)
InitUpload(c) ==
    \E n \in DOMAIN nodes, path \in Paths, size \in Sizes :
        InitUploadBegin(c, n, "init_upload", path, size, <<>>)
Put(c) ==
    \E n \in DOMAIN nodes, path \in Paths, file \in LocalFiles :
        InitUploadBegin(c, n, "put", path, FileSize(file), file)
CommitUpload(c) ==
    \E n \in DOMAIN nodes, upload_id \in 1 .. uuid, cks \in ChecksumLists :
        CommitUploadBegin(c, n, upload_id, cks)
AbortUpload(c) ==
    \E n \in DOMAIN nodes, upload_id \in 1 .. uuid : AbortUploadBegin(c, n, upload_id)

Next ==
    \/ \E n \in DOMAIN nodes : Start(n)
    \/ \E n \in DOMAIN nodes : ReadIndex(n)
    \/ \E c \in Threads : CreateDirectory(c)
    \/ \E c \in Threads : CreateDirectoryLock(c)
    \/ \E c \in Threads : CreateDirectoryAdd(c)
    \/ \E c \in Threads : InitUpload(c)
    \/ \E c \in Threads : Put(c)
    \/ \E c \in Threads : InitUploadLock(c)
    \/ \E c \in Threads : InitUploadAdd(c)
    \/ \E c \in Threads : PutChunks(c)
    \/ \E c \in Threads : PutCommit(c)
    \/ \E c \in Threads : PutAbort(c)
    \/ \E c \in Threads : CommitUpload(c)
    \/ \E c \in Threads : CommitUploadChunk(c)
    \/ \E c \in Threads : CommitUploadFinish(c)
    \/ \E c \in Threads : AbortUpload(c)
    \/ \E c \in Threads : AbortUploadEdge(c)

Spec == Init /\ [][Next]_vars

\* ============================================================ namespace
\* One node, two clients: directories and uploads are created, aborted,
\* deleted and listed.
TreePaths == {<<"a">>, <<"b">>, <<"a", "b">>}
TreeSizes == {CHUNK_SIZE + 1}

InitTree ==
    /\ nodes = [n \in {"n1"} |-> NewNode(n, <<>>)]
    /\ budget = MaxTreeOps
    /\ InitCommon

Delete(c) ==
    \E n \in DOMAIN nodes, path \in TreePaths : DeleteBegin(c, n, "delete", path)
DeleteRecursive(c) ==
    \E n \in DOMAIN nodes, path \in TreePaths :
        DeleteBegin(c, n, "delete_recursive", path)

NextTree ==
    \/ \E n \in DOMAIN nodes : Start(n)
    \/ \E n \in DOMAIN nodes, path \in TreePaths \cup {<<>>} : ListDirectory(n, path)
    \/ \E c \in Threads, n \in DOMAIN nodes, path \in TreePaths :
          CreateDirectoryBegin(c, n, path)
    \/ \E c \in Threads : CreateDirectoryLock(c)
    \/ \E c \in Threads : CreateDirectoryAdd(c)
    \/ \E c \in Threads, n \in DOMAIN nodes, path \in TreePaths, size \in TreeSizes :
          InitUploadBegin(c, n, "init_upload", path, size, <<>>)
    \/ \E c \in Threads : InitUploadLock(c)
    \/ \E c \in Threads : InitUploadAdd(c)
    \/ \E c \in Threads : AbortUpload(c)
    \/ \E c \in Threads : AbortUploadEdge(c)
    \/ \E c \in Threads : Delete(c)
    \/ \E c \in Threads : DeleteRecursive(c)
    \/ \E c \in Threads : DeleteLock(c)
    \/ \E c \in Threads : DeleteMark(c)
    \/ \E c \in Threads : DeleteEdge(c)

SpecTree == InitTree /\ [][NextTree]_vars

\* ============================================================ collection
\* One node with its collector and one client; the collector tasks keep
\* running.
GcThreads == {"c1"}
GcInodes == 2 .. 3

InitGC ==
    /\ nodes = [n \in {"n1"} |-> NewNode(n, <<>>)]
    /\ budget = MaxGcOps
    /\ InitCommon

NextGC ==
    \/ \E n \in DOMAIN nodes : Start(n)
    \/ \E c \in GcThreads : CreateDirectory(c)
    \/ \E c \in GcThreads : CreateDirectoryLock(c)
    \/ \E c \in GcThreads : CreateDirectoryAdd(c)
    \/ \E c \in GcThreads, n \in DOMAIN nodes, path \in Paths, size \in TreeSizes :
          InitUploadBegin(c, n, "init_upload", path, size, <<>>)
    \/ \E c \in GcThreads : InitUploadLock(c)
    \/ \E c \in GcThreads : InitUploadAdd(c)
    \/ \E c \in GcThreads : CommitUpload(c)
    \/ \E c \in GcThreads : CommitUploadChunk(c)
    \/ \E c \in GcThreads : CommitUploadFinish(c)
    \/ \E c \in GcThreads, n \in DOMAIN nodes, path \in Paths :
          DeleteBegin(c, n, "delete", path)
    \/ \E c \in GcThreads, n \in DOMAIN nodes, path \in Paths :
          DeleteBegin(c, n, "delete_recursive", path)
    \/ \E c \in GcThreads : DeleteLock(c)
    \/ \E c \in GcThreads : DeleteMark(c)
    \/ \E c \in GcThreads : DeleteEdge(c)
    \/ \E n \in DOMAIN nodes, inode_id \in GcInodes : QueueDeletion(n, inode_id)
    \/ \E n \in DOMAIN nodes : ProcessDeletions(n)
    \/ \E n \in DOMAIN nodes : ProcessChunkGc(n)

SpecGC ==
    /\ InitGC
    /\ [][NextGC]_vars
    /\ WF_vars(\E n \in DOMAIN nodes : ProcessDeletions(n))
    /\ WF_vars(\E n \in DOMAIN nodes : ProcessChunkGc(n))

\* ============================================================ uploads in turn
\* One node, one client: upload sessions are opened, committed and aborted
\* one call after the other while the clock moves on.
SeqThreads == {"c1"}
SeqPaths == {<<"a">>}

\* the clock moves on by the life of a session, or by an hour more
Tick ==
    /\ \E d \in {EXPIRES_HOURS, EXPIRES_HOURS + 1} :
          /\ now + d <= MaxNow
          /\ now' = now + d
    /\ ev' = NoEvent
    /\ UNCHANGED <<nodes, thread, uuid, budget, chunk_servers, allocated, last_put,
                   upload_path>>

InitSeq ==
    /\ nodes = [n \in {"n1"} |-> NewNode(n, <<>>)]
    /\ budget = MaxSeqOps
    /\ InitCommon

NextSeq ==
    \/ \E n \in DOMAIN nodes : Start(n)
    \/ Tick
    \/ \E c \in SeqThreads, n \in DOMAIN nodes, path \in SeqPaths, size \in Sizes :
          InitUploadBegin(c, n, "init_upload", path, size, <<>>)
    \/ \E c \in SeqThreads : InitUploadLock(c)
    \/ \E c \in SeqThreads : InitUploadAdd(c)
    \/ \E c \in SeqThreads : CommitUpload(c)
    \/ \E c \in SeqThreads : CommitUploadChunk(c)
    \/ \E c \in SeqThreads : CommitUploadFinish(c)
    \/ \E c \in SeqThreads : AbortUpload(c)
    \/ \E c \in SeqThreads : AbortUploadEdge(c)

SpecSeq == InitSeq /\ [][NextSeq]_vars

\* ============================================================ cluster
Cluster == {NodeOrder[i] : i \in DOMAIN NodeOrder}
ClusterThreads == {"c1"}
PeersOf(n) == SelectSeq(NodeOrder, LAMBDA m : m # n)

InitCluster ==
    /\ nodes = [n \in Cluster |-> NewNode(n, PeersOf(n))]
    /\ budget = MaxClusterOps
    /\ InitCommon

NextCluster ==
    \/ \E n \in DOMAIN nodes : Start(n)
    \/ \E n \in DOMAIN nodes : StartElection(n)
    \/ \E n \in DOMAIN nodes : Heartbeat(n)
    \/ \E n \in DOMAIN nodes : ReadIndex(n)
    \/ \E c \in ClusterThreads : CreateDirectory(c)
    \/ \E c \in ClusterThreads : CreateDirectoryLock(c)
    \/ \E c \in ClusterThreads : CreateDirectoryAdd(c)

SpecCluster == InitCluster /\ [][NextCluster]_vars

\* ============================================================ properties
\* a read on node n whose heartbeats reach no handler: the peers stay as they are
ReadNet(n) == [p \in PeerSet(nodes[n]) |-> "dropped"]
Metadata(n, path) == get_file_metadata(nodes, n, path, ReadNet(n))

\* thread c takes this step, inside a handler named in ops
Acts(c, ops) ==
    /\ thread'[c] # thread[c]
    /\ thread[c].op \in ops \/ thread'[c].op \in ops

\* the inode records, directory edges and chunk rows of a store
StateMachine(s) == [inodes |-> s.inodes, children |-> s.children, chunks |-> s.chunks]

RECURSIVE replay(_, _, _, _)
\* the store after the entries number from .. to of log are applied to s
replay(s, log, from, to) ==
    IF from > to THEN s
    ELSE replay(IF from < Len(log) THEN apply_command(s, log[from + 1].command) ELSE s,
                log, from + 1, to)

\* C1: a failed upload never replaces an ACTIVE file version: no step of
\* init_upload or abort_upload changes what get_file_metadata returns for a
\* path that holds an ACTIVE file (its inode, version, size and chunk list).
C1_FailedUploadKeepsActive ==
    [][\A c \in Threads, n \in DOMAIN nodes, p \in Paths :
          (Acts(c, {"init_upload", "abort_upload"}) /\ Metadata(n, p).ok)
              => Metadata(n, p)' = Metadata(n, p)]_vars

\* C2: right after commit_upload(U) returns successfully, get_file_metadata of
\* U's path returns n = max(1, ceil(size / CHUNK_SIZE)) chunks with the indices
\* 0 .. n-1, chunk i carrying the i-th checksum given to commit_upload.
C2_CommitVisible ==
    (ev.type \in {"commit_upload", "put"} /\ ev.ok) =>
        LET m == Metadata(ev.node, ev.path)
            n == num_chunks_of(SizeOf(ev.upload_id))
        IN /\ m.ok
           /\ Len(m.chunks) = n
           /\ \A i \in 1 .. n : /\ m.chunks[i].chunk_index = i - 1
                                /\ m.chunks[i].checksum = ev.checksums[i]

\* C3: after put(local, P) succeeded and while no write to P has followed,
\* get(P) and get_parallel(P) succeed and produce a file with the bytes of
\* local.
C3_RoundTrip ==
    \A n \in DOMAIN nodes, p \in Paths :
        (last_put[p] # NoFile /\ nodes[n].role = LEADER) =>
            /\ get(nodes, n, chunk_servers, p, ReadNet(n))
                  = [ok |-> TRUE, image |-> LocalImage(last_put[p]), failed |-> {}]
            /\ get_parallel(nodes, n, chunk_servers, p, ReadNet(n))
                  = [ok |-> TRUE, image |-> LocalImage(last_put[p]), failed |-> {}]

\* C6: when read_index returns r, the node is LEADER, a strict majority of the
\* cluster (itself included) acknowledged the heartbeat, and last_applied >= r.
C6_ReadIndexApplied ==
    (ev.type = "read_index" /\ ev.ok) =>
        /\ nodes[ev.node].role = LEADER
        /\ ev.acks >= majority(nodes[ev.node])
        /\ nodes[ev.node].last_applied >= ev.value

\* C7: in every reachable state (parent_id, name) is unique among the ACTIVE
\* inodes of a store.
C7_UniqueSiblings ==
    \A n \in DOMAIN nodes :
        \A i, j \in DOMAIN nodes[n].storage.inodes :
            LET a == nodes[n].storage.inodes[i]
                b == nodes[n].storage.inodes[j]
            IN (a.status = ACTIVE /\ b.status = ACTIVE
                /\ a.parent_id = b.parent_id /\ a.name = b.name) => i = j

\* C9: the log is the sole mutation interface: in every step, the inode
\* records, edges and chunk rows of each node change exactly by the log
\* entries the step applies (those between last_applied and its new value).
C9_LogSoleWriter ==
    [][\A n \in DOMAIN nodes :
          StateMachine(nodes'[n].storage)
              = StateMachine(replay(nodes[n].storage, nodes'[n].log,
                                    nodes[n].last_applied + 1,
                                    nodes'[n].last_applied))]_vars

\* C4: create_directory is all-or-nothing: when it returns success, the
\* directory it created is applied on the node that served it (the path
\* resolves to the new inode); when it reports a failure after proposing, the
\* inode it proposed is not in that node's store.
C4_AllOrNothing ==
    (ev.type = "create_directory" /\ ev.inode_id # 0) =>
        IF ev.ok
        THEN resolve_path(nodes[ev.node].storage, ev.path).inode_id = ev.inode_id
        ELSE get_inode(nodes[ev.node].storage, ev.inode_id) = NoInode

\* the nodes whose log holds the entry that node n holds at index
StoredOn(n, index) ==
    {m \in DOMAIN nodes : /\ index < Len(nodes[m].log)
                          /\ nodes[m].log[index + 1] = nodes[n].log[index + 1]}

\* C5: whenever propose returns True on a leader, the index of the appended
\* entry is <= commit_index and <= last_applied on that leader, and the entry
\* is stored on a strict majority of the cluster.
C5_AckedIsCommittedApplied ==
    ev.propose = "True" =>
        /\ ev.pindex <= nodes[ev.pnode].commit_index
        /\ ev.pindex <= nodes[ev.pnode].last_applied
        /\ 2 * Cardinality(StoredOn(ev.pnode, ev.pindex)) > Cardinality(DOMAIN nodes)

IncreasingIds ==
    /\ \A i, j \in DOMAIN allocated : i < j => allocated[i] < allocated[j]
    /\ \A i \in DOMAIN allocated : allocated[i] # ROOT_INODE_ID

\* C8: the ids given to new inodes are strictly increasing, whatever node
\* allocates them, and none is the id of the root; no step replaces an inode
\* record by the record of a different file or directory.
C8_InodeIdsIncrease ==
    [][/\ IncreasingIds'
       /\ \A n \in DOMAIN nodes :
            \A i \in (DOMAIN nodes[n].storage.inodes)
                        \cap (DOMAIN nodes'[n].storage.inodes) :
                LET old == nodes[n].storage.inodes[i]
                    new == nodes'[n].storage.inodes[i]
                IN /\ new.parent_id = old.parent_id
                   /\ new.name = old.name
                   /\ new.type = old.type]_vars

\* ============================================================ replay
\* The commands of a log that is replayed: every command type, with two
\* values for a key where the type has a value.
ReplayInode(type, status, version) ==
    [inode_id |-> 2, parent_id |-> ROOT_INODE_ID, name |-> "a", type |-> type,
     size |-> 0, status |-> status, version |-> version]
ReplayChunk(checksum) ==
    [chunk_id |-> 1, inode_id |-> 2, version |-> 1, chunk_index |-> 0, size |-> 0,
     checksum |-> checksum, servers |-> <<ServerName(0)>>]
ReplayCommands ==
    {CreateInodeCmd(ReplayInode(DIRECTORY, ACTIVE, 1)),
     CreateInodeCmd(ReplayInode(FILE, UPLOADING, 2)),
     DeleteInodeCmd(2),
     AddChildCmd(ROOT_INODE_ID, "a", 2),
     AddChildCmd(ROOT_INODE_ID, "a", 3),
     RemoveChildCmd(ROOT_INODE_ID, "a"),
     PutChunkCmd(ReplayChunk(sha256(0))),
     PutChunkCmd(ReplayChunk(sha256(1)))}
ReplayLogs == UNION {[1 .. k -> ReplayCommands] : k \in 0 .. MaxReplay}
LogOf(L) == [i \in DOMAIN L |-> [term |-> 0, command |-> L[i], index |-> i - 1]]

\* a fresh node that holds the log L, nothing of it applied
InitReplay ==
    /\ \E L \in ReplayLogs :
          nodes = [n \in {"n1"} |-> [NewNode(n, <<>>) EXCEPT !.log = LogOf(L)]]
    /\ budget = 0
    /\ InitCommon

\* the whole log is committed and applied from its first entry, on top of
\* whatever the store holds
Replay(n) ==
    /\ ev.value < 2
    /\ nodes' = [nodes EXCEPT ![n] =
                    apply_committed_entries(
                        [@ EXCEPT !.commit_index = Len(nodes[n].log) - 1,
                                  !.last_applied = -1])]
    /\ ev' = [NoEvent EXCEPT !.type = "replay", !.node = n, !.value = ev.value + 1]
    /\ UNCHANGED <<thread, uuid, budget, chunk_servers, allocated, last_put, upload_path, now>>

NextReplay == \E n \in DOMAIN nodes : Replay(n)

SpecReplay == InitReplay /\ [][NextReplay]_vars

\* the store of a fresh state machine after the log of node n is applied once
AppliedOnce(n) ==
    replay(NewNode(n, <<>>).storage, nodes[n].log, 0, Len(nodes[n].log) - 1)

\* C10: applying a log L and then L again to a fresh state machine gives the
\* inode records, edges and chunk rows that applying L once gives.
C10_ReplayIdempotent ==
    (ev.type = "replay" /\ ev.value = 2) =>
        StateMachine(nodes[ev.node].storage) = StateMachine(AppliedOnce(ev.node))

\* a log of MaxReplay commands that writes a key twice has been applied twice
C10_Witness ==
    /\ ev.type = "replay" /\ ev.value = 2
    /\ Len(nodes[ev.node].log) = MaxReplay
    /\ nodes[ev.node].log[1].command.type = "CREATE_INODE"
    /\ nodes[ev.node].log[2].command.type = "CREATE_INODE"
    /\ nodes[ev.node].log[1] # [nodes[ev.node].log[2] EXCEPT !.index = 0]

\* ------------------------------------------------------------ resolution
RECURSIVE target(_, _, _)
\* the inode id the edges lead to from the root along the first k segments of
\* path, 0 when an edge is missing
target(s, path, k) ==
    IF k = 0 THEN ROOT_INODE_ID
    ELSE IF target(s, path, k - 1) = 0 THEN 0
    ELSE IF <<target(s, path, k - 1), path[k]>> \in DOMAIN s.children
         THEN s.children[<<target(s, path, k - 1), path[k]>>]
         ELSE 0

\* the status of the k-th segment's target, "" when there is no such inode
target_status(s, path, k) ==
    IF target(s, path, k) \in DOMAIN s.inodes
    THEN s.inodes[target(s, path, k)].status
    ELSE ""

\* C11 as stated: resolve_path(P) returns an inode exactly when every segment
\* of P has an edge whose target is ACTIVE.
C11_OnlyActive ==
    \A n \in DOMAIN nodes, P \in TreePaths :
        (resolve_path(nodes[n].storage, P) # NoInode)
            <=> \A k \in 1 .. Len(P) : target_status(nodes[n].storage, P, k) = ACTIVE

\* C11: resolve_path(P) returns not-found whenever some segment of P has no
\* edge, or its target is missing or DELETED; otherwise, every target being
\* ACTIVE or UPLOADING, it returns the inode of the last segment.
C11_NotDeleted ==
    \A n \in DOMAIN nodes, P \in TreePaths :
        resolve_path(nodes[n].storage, P) =
            IF \A k \in 1 .. Len(P) :
                  target_status(nodes[n].storage, P, k) \in {ACTIVE, UPLOADING}
            THEN nodes[n].storage.inodes[target(nodes[n].storage, P, Len(P))]
            ELSE NoInode

\* one path resolves to an UPLOADING inode while another, whose edges are all
\* there, ends at a DELETED inode and is not found
C11_Witness ==
    \E n \in DOMAIN nodes, P \in TreePaths, Q \in TreePaths :
        /\ resolve_path(nodes[n].storage, P).status = UPLOADING
        /\ target_status(nodes[n].storage, Q, Len(Q)) = DELETED
        /\ resolve_path(nodes[n].storage, Q) = NoInode

\* ------------------------------------------------------------ listing
\* the ids of the inodes that an edge under directory dir leads to
EdgeTargets(s, dir) ==
    {id \in DOMAIN s.inodes :
        \E name \in Names : /\ <<dir, name>> \in DOMAIN s.children
                            /\ s.children[<<dir, name>>] = id}

\* the listing of directory dir is l: the ACTIVE edge targets, each once, by
\* ascending name
IsListing(s, dir, l) ==
    /\ {l[i].inode_id : i \in DOMAIN l} =
          {id \in EdgeTargets(s, dir) : s.inodes[id].status = ACTIVE}
    /\ \A i \in DOMAIN l : l[i] = s.inodes[l[i].inode_id]
    /\ \A i \in DOMAIN l, j \in DOMAIN l :
          i < j => name_key(l[i].name) < name_key(l[j].name)

\* C12: a list_directory(path) that returns gives exactly the inodes that are
\* targets of edges under the directory and ACTIVE, by ascending name; no
\* UPLOADING or DELETED inode is in it, and every upload session the store
\* held before the call is still returned by get_upload_session after it.
C12_Listing ==
    [][(ev'.type = "list_directory" /\ ev'.ok) =>
          /\ IsListing(nodes'[ev'.node].storage,
                       resolve_path(nodes'[ev'.node].storage, ev'.path).inode_id,
                       ev'.result)
          /\ \A i \in DOMAIN ev'.result : ev'.result[i].status = ACTIVE
          /\ \A u \in 1 .. uuid :
                get_upload_session(nodes'[ev'.node].storage, u)
                    = get_upload_session(nodes[ev'.node].storage, u)]_vars

\* a listing returned an ACTIVE child and left out an UPLOADING sibling whose
\* upload session is open
C12_Witness ==
    /\ ev.type = "list_directory" /\ ev.ok
    /\ Len(ev.result) > 0
    /\ \E u \in 1 .. uuid :
          LET s == nodes[ev.node].storage
              session == get_upload_session(s, u)
          IN /\ session # NoSession
             /\ get_inode(s, session.inode_id).status = UPLOADING
             /\ session.inode_id \in
                   EdgeTargets(s, resolve_path(s, ev.path).inode_id)
             /\ \A i \in DOMAIN ev.result : ev.result[i].inode_id # session.inode_id

\* ------------------------------------------------------------ delete
\* C13: a delete(path) never marks a directory DELETED while the directory has
\* a child edge: in the step in which a non-recursive delete has its DELETED
\* inode applied, no edge lies under the directory, whatever create_directory
\* or init_upload runs at the same time.
C13_NoDeleteWithChild ==
    [][\A c \in Threads :
          (/\ thread[c].op = "delete"
           /\ thread[c].pc = "del_mark"
           /\ thread'[c].pc = "del_edge"
           /\ thread[c].inode.type = DIRECTORY)
          => list_children(nodes'[thread[c].node].storage,
                           thread[c].inode.inode_id) = {}]_vars

\* ------------------------------------------------------------ collection
\* inode id lies in the subtree whose root the delete that just returned has
\* detached
JustDeleted(id) ==
    /\ ev.type \in {"delete", "delete_recursive"}
    /\ ev.ok
    /\ \/ id = ev.inode_id
       \/ \E name \in Names :
             get_child(nodes[ev.node].storage, ev.inode_id, name) = id
HasChunkRows(n, id) == \E k \in DOMAIN nodes[n].storage.chunks : k[1] = id

\* C14: once delete_recursive(P), or delete of a file, has returned, the
\* collector tasks running, the chunk rows of every file of the deleted subtree
\* are eventually removed.
C14_Collected ==
    \A id \in GcInodes :
        (JustDeleted(id) /\ HasChunkRows("n1", id)) ~> ~HasChunkRows("n1", id)

\* ------------------------------------------------------------ versions
\* the positions of the log at which inode id was written as ACTIVE
ActiveWrites(log, id) ==
    {i \in DOMAIN log : /\ log[i].command.type = "CREATE_INODE"
                        /\ log[i].command.inode.inode_id = id
                        /\ log[i].command.inode.status = ACTIVE}
\* the version at which inode id was ACTIVE last, 0 when it never was
LastActiveVersion(log, id) ==
    IF ActiveWrites(log, id) = {} THEN 0
    ELSE log[CHOOSE i \in ActiveWrites(log, id) :
                \A j \in ActiveWrites(log, id) : j <= i].command.inode.version

\* C15: when a commit_upload returns successfully for a file that was ACTIVE at
\* version v before the session was opened, the file is ACTIVE at version
\* v + 1, however many sessions on the path were opened, aborted or left open
\* in between.
C15_VersionPlusOne ==
    [][\A c \in SeqThreads :
          (ev'.type = "commit_upload" /\ ev'.ok /\ ev'.c = c) =>
             LET n == ev'.node
                 id == thread[c].session.inode_id
                 v == LastActiveVersion(nodes[n].log, id)
             IN (v > 0 /\ thread[c].session.version > v) =>
                  /\ get_inode(nodes'[n].storage, id).status = ACTIVE
                  /\ get_inode(nodes'[n].storage, id).version = v + 1]_vars

\* ------------------------------------------------------------ chunk rows
RECURSIVE SumSizes(_)
SumSizes(chunks) ==
    IF chunks = <<>> THEN 0 ELSE Head(chunks).size + SumSizes(Tail(chunks))

\* C16: in every reachable state, for every file inode that is ACTIVE at
\* version v, the chunk rows stored for (inode, v) have sizes >= 0 that sum to
\* the size of the inode.
C16_SizesSum ==
    \A n \in DOMAIN nodes :
        \A id \in DOMAIN nodes[n].storage.inodes :
            LET inode == nodes[n].storage.inodes[id]
                rows == get_chunks(nodes[n].storage, id, inode.version)
            IN (inode.type = FILE /\ inode.status = ACTIVE) =>
                  /\ \A i \in DOMAIN rows : rows[i].size >= 0
                  /\ SumSizes(rows) = inode.size

\* ------------------------------------------------------------ reference counts
\* the (inode, version) chunk maps of store s that list chunk_id
ChunkMaps(s, chunk_id) ==
    {<<k[1], k[2]>> : k \in {x \in DOMAIN s.chunks : s.chunks[x].chunk_id = chunk_id}}

\* C17: in every reachable state the stored reference count of each chunk id
\* is the number of (inode, version) chunk maps that list the chunk id, so it
\* is at least 1 for every chunk of a committed file version.
C17_RefCounts ==
    \A n \in DOMAIN nodes :
        \A chunk_id \in 1 .. uuid :
            get_chunk_ref(nodes[n].storage, chunk_id)
                = Cardinality(ChunkMaps(nodes[n].storage, chunk_id))

\* ------------------------------------------------------------ abort
\* the target of session upload_id in store s is a brand-new UPLOADING file
BrandNew(s, upload_id) ==
    /\ get_upload_session(s, upload_id) # NoSession
    /\ get_inode(s, get_upload_session(s, upload_id).inode_id).status = UPLOADING
    /\ get_inode(s, get_upload_session(s, upload_id).inode_id).version = 1

\* C18: an abort_upload(U) that finds a session whose target is a brand-new
\* UPLOADING file (version 1) returns only with the session, the inode and
\* the parent edge deleted, so that get_upload_session(U) is absent and the
\* path is not found; an abort_upload of an unknown session id changes nothing.
C18_Abort ==
    [][\A c \in Threads :
          /\ (thread[c].pc = "idle" /\ ev'.type = "abort_upload" /\ ev'.c = c) =>
                /\ ~BrandNew(nodes[ev'.node].storage, ev'.upload_id)
                /\ get_upload_session(nodes[ev'.node].storage, ev'.upload_id) = NoSession
                      => nodes' = nodes
          /\ (thread[c].pc = "ab_edge" /\ thread'[c].pc = "idle") =>
                LET s == nodes'[ev'.node].storage
                    inode == thread[c].inode
                IN /\ ev'.type = "abort_upload" /\ ev'.ok
                   /\ get_upload_session(s, ev'.upload_id) = NoSession
                   /\ get_inode(s, inode.inode_id) = NoInode
                   /\ <<inode.parent_id, inode.name>> \notin DOMAIN s.children
                   /\ resolve_path(s, PathOf(ev'.upload_id)) = NoInode]_vars

\* an abort_upload has returned after deleting a brand-new file: its session
\* is gone and its path is not found
C18_Witness ==
    /\ ev.type = "abort_upload" /\ ev.ok
    /\ ev.inode_id # 0
    /\ ev.upload_id \in DOMAIN upload_path
    /\ get_upload_session(nodes[ev.node].storage, ev.upload_id) = NoSession
    /\ resolve_path(nodes[ev.node].storage, PathOf(ev.upload_id)) = NoInode

\* ------------------------------------------------------------ expiry
\* C19: commit_upload treats a session past its expires_at as absent: it goes
\* past the lookup of the session, towards making the file ACTIVE, only with
\* a session that has not expired.
C19_ExpiredIsAbsent ==
    [][\A c \in Threads :
          (thread[c].pc = "idle" /\ thread'[c].pc = "cu_chunk") =>
             now <= thread'[c].session.expires_at]_vars

\* ============================================================ download
\* A file that a put has stored under /a, and chunk servers that since then
\* have kept, lost or damaged its chunks.
DownloadPaths == {<<"a">>, <<"a", "b">>}
DownloadInode(file, status) ==
    [inode_id |-> 2, parent_id |-> ROOT_INODE_ID, name |-> "a", type |-> FILE,
     size |-> (IF status = ACTIVE THEN FileSize(file) ELSE 0),
     status |-> status, version |-> 1]
\* chunk i of the file as commit_upload records it
DownloadChunk(file, i) ==
    [chunk_id |-> i + 1, inode_id |-> 2, version |-> 1, chunk_index |-> i,
     size |-> DataLen(file[i + 1]), checksum |-> sha256(file[i + 1]),
     servers |-> <<ServerName(0), ServerName(1), ServerName(2)>>]
\* the log of init_upload and commit_upload
DownloadLog(file) ==
    LogOf(<<CreateInodeCmd(DownloadInode(file, UPLOADING)),
            AddChildCmd(ROOT_INODE_ID, "a", 2)>>
          \o [i \in 1 .. Len(file) |-> PutChunkCmd(DownloadChunk(file, i - 1))]
          \o <<CreateInodeCmd(DownloadInode(file, ACTIVE))>>)

\* what a chunk server holds of a chunk: nothing; the bytes it was sent; other
\* bytes under their own checksum; or an index entry whose file has changed
Holds == {"absent", "good", "replaced", "corrupt"}
OtherData(d) == IF d = 1 THEN 3 ELSE 1
hold_chunk(cs, chunk_id, d, hold) ==
    CASE hold = "absent" -> cs
      [] hold = "good" -> write_chunk(cs, chunk_id, d, sha256(d)).cs
      [] hold = "replaced" ->
            write_chunk(cs, chunk_id, OtherData(d), sha256(OtherData(d))).cs
      [] OTHER ->
            [write_chunk(cs, chunk_id, d, sha256(d)).cs
                EXCEPT !.disk = data_put(@, chunk_id, OtherData(d))]
RECURSIVE hold_file(_, _, _, _)
hold_file(cs, file, h, i) ==
    IF i >= Len(file) THEN cs
    ELSE hold_file(hold_chunk(cs, i + 1, file[i + 1], h[i]), file, h, i + 1)

InitDownload ==
    /\ \E file \in LocalFiles :
          /\ nodes = [n \in {"n1"} |->
                        apply_committed_entries(
                            [become_leader(NewNode(n, <<>>))
                                EXCEPT !.started = TRUE,
                                       !.log = DownloadLog(file),
                                       !.commit_index = Len(DownloadLog(file)) - 1,
                                       !.storage.next_inode_id = 3])]
          /\ \E h \in [ServerIds -> [0 .. Len(file) - 1 -> Holds]] :
                chunk_servers =
                    [sid \in ServerIds |-> hold_file(NewChunkServer, file, h[sid], 0)]
          /\ uuid = Len(file) + 1
          /\ last_put = [p \in Paths |-> IF p = <<"a">> THEN file ELSE NoFile]
    /\ thread = [c \in Threads |-> IdleThread]
    /\ allocated = <<>>
    /\ upload_path = <<>>
    /\ budget = 0
    /\ now = 0
    /\ ev = NoEvent

Get(n, path) ==
    \E r \in {get(nodes, n, chunk_servers, path, ReadNet(n))} :
        Download(n, path, "get", r)
GetParallel(n, path) ==
    \E r \in {get_parallel(nodes, n, chunk_servers, path, ReadNet(n))} :
        Download(n, path, "get_parallel", r)

NextDownload ==
    \/ \E n \in DOMAIN nodes, path \in DownloadPaths : Get(n, path)
    \/ \E n \in DOMAIN nodes, path \in DownloadPaths : GetParallel(n, path)

SpecDownload == InitDownload /\ [][NextDownload]_vars

\* server sid answers a download of the chunk with bytes that hash to the
\* checksum of the metadata
Serves(sid, chunk) ==
    /\ sid \in DOMAIN chunk_servers
    /\ chunk.chunk_id \in DOMAIN chunk_servers[sid].disk
    /\ chunk.chunk_id \in DOMAIN chunk_servers[sid].chunks
    /\ sha256(chunk_servers[sid].disk[chunk.chunk_id])
          = chunk_servers[sid].chunks[chunk.chunk_id].checksum
    /\ sha256(chunk_servers[sid].disk[chunk.chunk_id]) = chunk.checksum
GoodAt(chunk) == {j \in DOMAIN chunk.servers : Serves(chunk.servers[j], chunk)}
Lowest(S) == CHOOSE x \in S : \A y \in S : x <= y
\* the chunk indexes no listed server serves
Unserved(chunks) == {i \in 0 .. Len(chunks) - 1 : GoodAt(chunks[i + 1]) = {}}
IsDownload == ev.type \in {"get", "get_parallel"} /\ Metadata(ev.node, ev.path).ok

\* C20: for each chunk a download takes the bytes of the first server of the
\* chunk's list whose data hashes to the checksum of the metadata; every block
\* written to the output hashes to the checksum of its chunk; and when no
\* listed server of some chunk serves it, the download fails with
\* DownloadError for such a chunk index (the first one in get).
C20_Download ==
    IsDownload =>
        LET chunks == Metadata(ev.node, ev.path).chunks
        IN /\ ev.ok <=> Unserved(chunks) = {}
           /\ \A i \in DOMAIN chunks :
                 ev.servers[i] = IF GoodAt(chunks[i]) = {} THEN 0
                                 ELSE Lowest(GoodAt(chunks[i]))
           /\ \A b \in ev.image.blocks :
                 \E i \in 0 .. Len(chunks) - 1 :
                     /\ b[1] = i * CHUNK_SIZE
                     /\ sha256(b[2]) = chunks[i + 1].checksum
           /\ ev.ok =>
                 /\ ev.failed = -1
                 /\ ev.image = LocalImage(last_put[ev.path])
           /\ ~ev.ok =>
                 /\ ev.failed \in Unserved(chunks)
                 /\ ev.type = "get" => ev.failed = Lowest(Unserved(chunks))

\* a download has succeeded although the first server of a chunk's list did
\* not serve it
C20_Witness ==
    /\ IsDownload /\ ev.ok
    /\ \E i \in DOMAIN ev.servers : ev.servers[i] > 1

\* a download has failed with DownloadError for a chunk after an earlier chunk
\* was fetched
C20_WitnessFailed ==
    /\ IsDownload /\ ~ev.ok
    /\ ev.failed > 0

\* ============================================================ registry
\* handle_heartbeat: a server that is not registered is registered ONLINE; a
\* registered one gets used, last_heartbeat and status ONLINE
handle_heartbeat(s, server_id, server_info, t) ==
    LET server == get_server(s, server_id)
    IN IF server = NoServer
       THEN register_server(s, ChunkServer(server_id, server_info.capacity,
                                           server_info.used, ONLINE, t,
                                           server_info.zone))
       ELSE register_server(s, [server EXCEPT !.used = server_info.used,
                                              !.last_heartbeat = t,
                                              !.status = ONLINE])

PlaceServers == {"s1", "s2", "s3", "s4"}
PlaceInfos == {[capacity |-> 10, used |-> 0, zone |-> "z1"],
               [capacity |-> 10, used |-> 5, zone |-> "z1"],
               [capacity |-> 10, used |-> 5, zone |-> "z2"]}

HandleHeartbeat(n, server_id, server_info) ==
    /\ budget > 0
    /\ budget' = budget - 1
    /\ nodes' = [nodes EXCEPT ![n].storage =
                    handle_heartbeat(@, server_id, server_info, now)]
    /\ ev' = [NoEvent EXCEPT !.type = "heartbeat", !.node = n,
                             !.server_id = server_id, !.value = server_info.used]
    /\ UNCHANGED <<thread, uuid, chunk_servers, allocated, last_put, upload_path, now>>

\* the status of a registered server is set from outside the heartbeat path
\* (an operator drains it, or it is marked OFFLINE)
SetStatus(n, server_id, status) ==
    /\ budget > 0
    /\ get_server(nodes[n].storage, server_id) # NoServer
    /\ budget' = budget - 1
    /\ nodes' = [nodes EXCEPT ![n].storage =
                    register_server(@, [get_server(@, server_id)
                                           EXCEPT !.status = status])]
    /\ ev' = [NoEvent EXCEPT !.type = "set_status", !.node = n,
                             !.server_id = server_id]
    /\ UNCHANGED <<thread, uuid, chunk_servers, allocated, last_put, upload_path, now>>

\* the call of _select_chunk_servers that init_upload makes for a chunk
Select(n) ==
    /\ ev' = [NoEvent EXCEPT !.type = "select", !.node = n,
                             !.result = select_chunk_servers(nodes[n].storage,
                                                             REPLICATION_FACTOR)]
    /\ UNCHANGED <<nodes, thread, uuid, budget, chunk_servers, allocated, last_put,
                   upload_path, now>>

InitPlace ==
    /\ nodes = [n \in {"n1"} |->
                  [become_leader(NewNode(n, <<>>)) EXCEPT !.started = TRUE]]
    /\ budget = MaxPlaceOps
    /\ InitCommon

NextPlace ==
    \/ \E n \in DOMAIN nodes, sid \in PlaceServers, info \in PlaceInfos :
          HandleHeartbeat(n, sid, info)
    \/ \E n \in DOMAIN nodes, sid \in PlaceServers, st \in {OFFLINE, DRAINING} :
          SetStatus(n, sid, st)
    \/ \E n \in DOMAIN nodes : Select(n)

SpecPlace == InitPlace /\ [][NextPlace]_vars

Online(n) == list_servers(nodes[n].storage, ONLINE)
ZonesOf(n, ids) ==
    {get_server(nodes[n].storage, ids[i]).zone : i \in DOMAIN ids}
OnlineZones(n) == {Online(n)[i].zone : i \in DOMAIN Online(n)}

\* C21: when the ONLINE servers span at least k zones, k <= REPLICATION_FACTOR,
\* the servers selected for a chunk cover at least k zones.
C21_DistinctZones ==
    (ev.type = "select" /\ Online(ev.node) # <<>>) =>
        Cardinality(ZonesOf(ev.node, ev.result))
            >= Min(Cardinality(OnlineZones(ev.node)), REPLICATION_FACTOR)

\* C22: the servers selected for a chunk are distinct ids of servers
\* registered ONLINE, and there are min(REPLICATION_FACTOR, number of ONLINE
\* servers) of them.
C22_OnlineOnly ==
    ev.type = "select" =>
        /\ \A i, j \in DOMAIN ev.result : ev.result[i] = ev.result[j] => i = j
        /\ \A i \in DOMAIN ev.result :
              get_server(nodes[ev.node].storage, ev.result[i]).status = ONLINE
        /\ Len(ev.result) = Min(REPLICATION_FACTOR, Len(Online(ev.node)))

\* C23: a heartbeat from a server registered DRAINING leaves its status
\* DRAINING; a heartbeat from any other registered server makes it ONLINE with
\* the used bytes of the heartbeat and the time of the heartbeat.
C23_DrainingSticky ==
    [][\A n \in DOMAIN nodes :
          (ev'.type = "heartbeat" /\ ev'.node = n) =>
             LET old == get_server(nodes[n].storage, ev'.server_id)
                 new == get_server(nodes'[n].storage, ev'.server_id)
             IN /\ (old # NoServer /\ old.status = DRAINING) =>
                      new.status = DRAINING
                /\ (old # NoServer /\ old.status # DRAINING) =>
                      /\ new.status = ONLINE
                      /\ new.used = ev'.value
                      /\ new.last_heartbeat = now]_vars

\* ============================================================ commit rule
\* the nodes that hold, after the step, the entry node n holds at index
StoredAfter(n, index) ==
    {m \in DOMAIN nodes : /\ index < Len(nodes'[m].log)
                          /\ index < Len(nodes'[n].log)
                          /\ nodes'[m].log[index + 1] = nodes'[n].log[index + 1]}

\* C25: whenever a leader advances its commit_index to N, the entry at N is
\* of the leader's current term and is stored on a strict majority of the
\* cluster.
C25_CommitOnMajority ==
    [][\A n \in DOMAIN nodes :
          (/\ nodes[n].role = LEADER /\ nodes'[n].role = LEADER
           /\ nodes'[n].commit_index > nodes[n].commit_index) =>
             LET N == nodes'[n].commit_index
             IN /\ N < Len(nodes'[n].log)
                /\ nodes'[n].log[N + 1].term = nodes'[n].current_term
                /\ 2 * Cardinality(StoredAfter(n, N)) > Cardinality(DOMAIN nodes)]_vars

\* ============================================================ RPC handlers
\* One node and the requests its RPC server hands to handle_request_vote and
\* handle_append_entries.
RpcTerms == 1 .. 2
RpcEntry(term, index) ==
    [term |-> term, command |-> CreateInodeCmd(ReplayInode(DIRECTORY, ACTIVE, term)),
     index |-> index]
RpcEntries(prev) ==
    {<<>>, <<RpcEntry(1, prev + 1)>>, <<RpcEntry(2, prev + 1)>>,
     <<RpcEntry(1, prev + 1), RpcEntry(2, prev + 2)>>}
VoteRequests ==
    {[NoEvent.request EXCEPT !.term = t, !.candidate_id = c,
                             !.last_log_index = i, !.last_log_term = lt] :
        t \in RpcTerms, c \in {"n2", "n3"}, i \in {-1, 1}, lt \in 0 .. 2}
AppendRequests ==
    UNION {{[NoEvent.request EXCEPT !.term = t, !.leader_id = "n2",
                                    !.prev_log_index = p[1], !.prev_log_term = p[2],
                                    !.entries = e, !.leader_commit = lc] :
               e \in RpcEntries(p[1])} :
           t \in RpcTerms, lc \in -1 .. 1,
           p \in {<<-1, 0>>, <<0, 1>>, <<0, 2>>, <<1, 1>>, <<1, 2>>}}

\* the RPC server runs handle_request_vote; before is the node at the call
HandleRequestVote(n, request) ==
    /\ budget > 0
    /\ budget' = budget - 1
    /\ \E h \in {handle_request_vote(nodes[n], request)} :
          /\ nodes' = [nodes EXCEPT ![n] = h.nd]
          /\ ev' = [NoEvent EXCEPT !.type = "request_vote", !.node = n,
                                   !.request = request, !.ok = h.resp.vote_granted,
                                   !.value = h.resp.term, !.before = <<nodes[n]>>]
    /\ UNCHANGED <<thread, uuid, chunk_servers, allocated, last_put, upload_path, now>>

\* the RPC server runs handle_append_entries
HandleAppendEntries(n, request) ==
    /\ budget > 0
    /\ budget' = budget - 1
    /\ \E h \in {handle_append_entries(nodes[n], request)} :
          /\ nodes' = [nodes EXCEPT ![n] = h.nd]
          /\ ev' = [NoEvent EXCEPT !.type = "append_entries", !.node = n,
                                   !.request = request, !.ok = h.resp.success,
                                   !.value = h.resp.term, !.before = <<nodes[n]>>]
    /\ UNCHANGED <<thread, uuid, chunk_servers, allocated, last_put, upload_path, now>>

InitRpc ==
    /\ nodes = [n \in {"n1"} |->
                  [NewNode(n, <<"n2", "n3">>) EXCEPT !.started = TRUE]]
    /\ budget = MaxRpcOps
    /\ InitCommon

NextRpc ==
    \/ \E n \in DOMAIN nodes, request \in VoteRequests : HandleRequestVote(n, request)
    \/ \E n \in DOMAIN nodes, request \in AppendRequests :
          HandleAppendEntries(n, request)

SpecRpc == InitRpc /\ [][NextRpc]_vars

\* the node before the handler ran, and the request it was given
Before == ev.before[1]
LastIndex(nd) == Len(nd.log) - 1
LastTerm(nd) == IF Len(nd.log) > 0 THEN nd.log[Len(nd.log)].term ELSE 0
\* (last_log_term, last_log_index) of the request is lexicographically >= the
\* node's
UpToDate(request, nd) ==
    \/ request.last_log_term > LastTerm(nd)
    \/ /\ request.last_log_term = LastTerm(nd)
       /\ request.last_log_index >= LastIndex(nd)
\* the node has not voted in the term of the request for another candidate
NotVotedOther(request, nd) ==
    \/ request.term > nd.current_term
    \/ nd.voted_for \in {None, request.candidate_id}
Granted(request, nd) ==
    /\ request.term >= nd.current_term
    /\ NotVotedOther(request, nd)
    /\ UpToDate(request, nd)

\* C24 as stated: a vote is granted iff the term is not old, no other
\* candidate has the vote of that term and the candidate's log is up to date;
\* a granted vote sets voted_for; a denied one leaves voted_for and the log
\* unchanged.
C24_DeniedKeepsVote ==
    ev.type = "request_vote" =>
        /\ ev.ok <=> Granted(ev.request, Before)
        /\ ev.ok => nodes[ev.node].voted_for = ev.request.candidate_id
        /\ ~ev.ok => /\ nodes[ev.node].voted_for = Before.voted_for
                     /\ nodes[ev.node].log = Before.log

\* C24, amended: as above, but a denied request of a higher term clears
\* voted_for (the node adopts the term); a denied request of no higher term
\* leaves voted_for unchanged; the log is unchanged in both cases.
C24_Vote ==
    ev.type = "request_vote" =>
        /\ ev.ok <=> Granted(ev.request, Before)
        /\ ev.ok => nodes[ev.node].voted_for = ev.request.candidate_id
        /\ ~ev.ok => /\ nodes[ev.node].voted_for =
                           IF ev.request.term > Before.current_term
                           THEN None ELSE Before.voted_for
                     /\ nodes[ev.node].log = Before.log
        /\ nodes[ev.node].log = Before.log

\* a node that had voted has denied a request of a higher term whose log is
\* behind its own
C24_Witness ==
    /\ ev.type = "request_vote" /\ ~ev.ok
    /\ ev.request.term > Before.current_term
    /\ Before.voted_for # None
    /\ ~UpToDate(ev.request, Before)

\* a vote has been granted to a candidate whose log is ahead, and one has been
\* denied because another candidate has the vote of the term
C24_WitnessGranted ==
    /\ ev.type = "request_vote"
    /\ \/ ev.ok /\ Len(Before.log) > 0
       \/ /\ ~ev.ok /\ ev.request.term = Before.current_term
          /\ Before.voted_for \notin {None, ev.request.candidate_id}

\* the index of the last entry the request verified or appended
last_new_index(request) == request.prev_log_index + Len(request.entries)

\* C27: a successful AppendEntries advances commit_index to
\* min(leader_commit, last_new_index) and never further, however long the
\* follower's own log is.
C27_CommitBound ==
    (ev.type = "append_entries" /\ ev.ok) =>
        nodes[ev.node].commit_index =
            Max(Before.commit_index,
                Min(ev.request.leader_commit, last_new_index(ev.request)))

\* ============================================================ replies
\* the request has a term that is not old and a prev_log_index that is -1 or
\* names an entry of the node with the term prev_log_term
Accepts(request, nd) ==
    /\ request.term >= nd.current_term
    /\ \/ request.prev_log_index = -1
       \/ /\ request.prev_log_index < Len(nd.log)
          /\ nd.log[request.prev_log_index + 1].term = request.prev_log_term
Mismatch(request, nd) ==
    /\ request.term >= nd.current_term
    /\ request.prev_log_index >= 0
    /\ request.prev_log_index < Len(nd.log)
    /\ nd.log[request.prev_log_index + 1].term # request.prev_log_term

\* the follower's side of C26, for every request given to the handler
AppendReplyRule ==
    ev.type = "append_entries" =>
        /\ ev.ok <=> Accepts(ev.request, Before)
        /\ Mismatch(ev.request, Before) =>
              nodes[ev.node].log = SubSeq(Before.log, 1, ev.request.prev_log_index)

C28_StepDown ==
    [][\A n \in DOMAIN nodes : \A m \in DOMAIN nodes :
          /\ (ev'.type = "send_heartbeats" /\ ev'.node = n /\ m \in ev'.received
              /\ nodes[m].current_term > nodes[n].current_term) =>
                /\ nodes'[n].role = FOLLOWER
                /\ nodes'[n].current_term = nodes[m].current_term
                /\ nodes'[n].voted_for = None
          /\ (ev'.type = "start_election" /\ ev'.node = n /\ m \in ev'.received
              /\ nodes[m].current_term > nodes[n].current_term + 1) =>
                /\ nodes'[n].role = FOLLOWER
                /\ nodes'[n].current_term = nodes[m].current_term
                /\ nodes'[n].voted_for = None]_vars

\* ============================================================ applier
\* the store of a fresh state machine after entries 0 .. last_applied of the
\* log of node n are applied in index order, each once
AppliedInOrder(n) ==
    replay(NewNode(n, <<>>).storage, nodes[n].log, 0, nodes[n].last_applied)

\* C29: on every node last_applied <= commit_index, every index up to
\* last_applied holds an entry, and the state machine is the result of
\* applying the entries 0 .. last_applied of the log in index order, each
\* exactly once.
C29_AppliedInOrder ==
    \A n \in DOMAIN nodes :
        /\ nodes[n].last_applied <= nodes[n].commit_index
        /\ nodes[n].last_applied < Len(nodes[n].log)
        /\ StateMachine(nodes[n].storage) = StateMachine(AppliedInOrder(n))

\* ============================================================ chunk files
\* One chunk server process, its data directory and a crash of the process.
\* On top of the fields of NewChunkServer, tmp holds the <path>.tmp files,
\* running tells whether the process is up, and call is the frame of the
\* write_chunk that is under way. What a file system call has done stays done
\* when the process dies.
NoCall == [pc |-> "idle", chunk_id |-> 0, data |-> 0, checksum |-> 0]
\* a file cut short in the middle of f.write(data): some of the bytes, not all
Partial(data) == 10 + data
TmpContents(data) == IF DataLen(data) > 1 THEN {0, Partial(data)} ELSE {0}

\* open(path, 'wb') of the final path itself, instead of the temp file
open_final(cs, chunk_id) == [cs EXCEPT !.disk = data_put(@, chunk_id, 0)]
\* open(temp_path, 'wb'): the temp file exists and is empty
open_temp(cs, chunk_id) == [cs EXCEPT !.tmp = data_put(@, chunk_id, 0)]

\* write_chunk after the checksum test, one file system call or the index
\* update at a time
write_chunk_step(cs) ==
    LET id == cs.call.chunk_id
    IN CASE cs.call.pc = "open" ->
               [open_temp(cs, id) EXCEPT !.call.pc = "write"]
         [] cs.call.pc = "write" ->
               [cs EXCEPT !.tmp = data_put(@, id, cs.call.data),
                          !.call.pc = "rename"]
         [] cs.call.pc = "rename" ->
               [cs EXCEPT !.disk = data_put(@, id, data_get(cs.tmp, id, 0)),
                          !.tmp = data_delete(@, id),
                          !.call.pc = "index"]
         [] OTHER ->
               [cs EXCEPT !.chunks = data_put(@, id, [size |-> DataLen(cs.call.data),
                                                      checksum |-> cs.call.checksum]),
                          !.used = @ + DataLen(cs.call.data),
                          !.call = NoCall]

RECURSIVE sum_sizes(_, _)
sum_sizes(disk, ids) ==
    IF ids = {} THEN 0
    ELSE LET id == CHOOSE x \in ids : TRUE
         IN DataLen(disk[id]) + sum_sizes(disk, ids \ {id})
\* _scan_local_chunks: the .tmp files are removed, every other file is hashed
scan_local_chunks(cs) ==
    [cs EXCEPT !.tmp = <<>>,
               !.chunks = [id \in DOMAIN cs.disk |->
                              [size |-> DataLen(cs.disk[id]),
                               checksum |-> sha256(cs.disk[id])]],
               !.used = sum_sizes(cs.disk, DOMAIN cs.disk)]

ChunkIds == 1 .. 2
ChunkData == 1 .. 2
ChunkEvent(type, sid, ok, error) ==
    [NoEvent EXCEPT !.type = type, !.server_id = sid, !.ok = ok, !.error = error]

\* write_chunk is called: ChecksumMismatchError, or the call goes on
WriteChunkBegin(sid, chunk_id, data, checksum) ==
    /\ budget > 0
    /\ chunk_servers[sid].running
    /\ chunk_servers[sid].call.pc = "idle"
    /\ budget' = budget - 1
    /\ IF sha256(data) # checksum
       THEN /\ ev' = ChunkEvent("write_chunk", sid, FALSE, "ChecksumMismatchError")
            /\ UNCHANGED chunk_servers
       ELSE /\ chunk_servers' =
                  [chunk_servers EXCEPT ![sid].call =
                      [pc |-> "open", chunk_id |-> chunk_id, data |-> data,
                       checksum |-> checksum]]
            /\ ev' = NoEvent
    /\ UNCHANGED <<nodes, thread, uuid, allocated, last_put, upload_path, now>>

WriteChunkStep(sid) ==
    /\ chunk_servers[sid].running
    /\ chunk_servers[sid].call.pc # "idle"
    /\ chunk_servers' = [chunk_servers EXCEPT ![sid] = write_chunk_step(@)]
    /\ ev' = IF chunk_servers[sid].call.pc = "index"
             THEN ChunkEvent("write_chunk", sid, TRUE, "")
             ELSE NoEvent
    /\ UNCHANGED <<nodes, thread, uuid, budget, allocated, last_put, upload_path, now>>

\* open, write or rename raises: the temp file is removed if it exists and
\* the exception goes to the caller
WriteChunkFail(sid) ==
    /\ chunk_servers[sid].running
    /\ chunk_servers[sid].call.pc \in {"open", "write", "rename"}
    /\ chunk_servers' =
          [chunk_servers EXCEPT ![sid].tmp = data_delete(@, chunk_servers[sid].call.chunk_id),
                                ![sid].call = NoCall]
    /\ ev' = ChunkEvent("write_chunk", sid, FALSE, "OSError")
    /\ UNCHANGED <<nodes, thread, uuid, budget, allocated, last_put, upload_path, now>>

\* the process dies: the index and the call are gone, the files stay; a
\* write that was under way leaves the temp file cut short
Crash(sid) ==
    /\ budget > 0
    /\ chunk_servers[sid].running
    /\ budget' = budget - 1
    /\ \E content \in (IF chunk_servers[sid].call.pc = "write"
                       THEN TmpContents(chunk_servers[sid].call.data) ELSE {0}) :
          chunk_servers' =
             [chunk_servers EXCEPT
                 ![sid].running = FALSE, ![sid].chunks = <<>>, ![sid].used = 0,
                 ![sid].call = NoCall,
                 ![sid].tmp = IF chunk_servers[sid].call.pc = "write"
                              THEN data_put(@, chunk_servers[sid].call.chunk_id, content)
                              ELSE @]
    /\ ev' = ChunkEvent("crash", sid, FALSE, "")
    /\ UNCHANGED <<nodes, thread, uuid, allocated, last_put, upload_path, now>>

\* start(): the startup scan
StartServer(sid) ==
    /\ ~chunk_servers[sid].running
    /\ chunk_servers' = [chunk_servers EXCEPT ![sid] =
                            [scan_local_chunks(@) EXCEPT !.running = TRUE]]
    /\ ev' = [ChunkEvent("start", sid, TRUE, "")
                 EXCEPT !.value = Cardinality(DOMAIN chunk_servers[sid].tmp)]
    /\ UNCHANGED <<nodes, thread, uuid, budget, allocated, last_put, upload_path, now>>

InitChunk ==
    /\ nodes = [n \in {"n1"} |-> NewNode(n, <<>>)]
    /\ thread = [c \in Threads |-> IdleThread]
    /\ chunk_servers = [sid \in {ServerName(0)} |->
                          [chunks |-> <<>>, disk |-> <<>>, used |-> 0, tmp |-> <<>>,
                           running |-> FALSE, call |-> NoCall]]
    /\ budget = MaxChunkOps
    /\ uuid = 0 /\ allocated = <<>> /\ upload_path = <<>> /\ now = 0
    /\ last_put = [p \in Paths |-> NoFile]
    /\ ev = NoEvent

NextChunk ==
    \/ \E sid \in DOMAIN chunk_servers, id \in ChunkIds, d \in ChunkData,
          sum \in {sha256(1), sha256(2)} : WriteChunkBegin(sid, id, d, sum)
    \/ \E sid \in DOMAIN chunk_servers : WriteChunkStep(sid)
    \/ \E sid \in DOMAIN chunk_servers : WriteChunkFail(sid)
    \/ \E sid \in DOMAIN chunk_servers : Crash(sid)
    \/ \E sid \in DOMAIN chunk_servers : StartServer(sid)

SpecChunk == InitChunk /\ [][NextChunk]_vars

\* C30: the file at a chunk's final path changes only by the rename of a
\* complete temp file whose bytes hash to the checksum of the call, and no
\* file at a final path disappears; after a startup scan no temp file is
\* left and the index holds exactly the files at final paths, each with the
\* checksum of its bytes; a write whose data does not hash to the checksum
\* given changes nothing.
C30_AtomicWrite ==
    [][\A sid \in DOMAIN chunk_servers :
          LET cs == chunk_servers[sid]
              after == chunk_servers'[sid]
          IN /\ DOMAIN cs.disk \subseteq DOMAIN after.disk
             /\ \A id \in DOMAIN after.disk :
                   (id \notin DOMAIN cs.disk \/ after.disk[id] # cs.disk[id]) =>
                      /\ cs.call.pc = "rename" /\ id = cs.call.chunk_id
                      /\ after.disk[id] = cs.call.data
                      /\ sha256(after.disk[id]) = cs.call.checksum
             /\ (~cs.running /\ after.running) =>
                   /\ after.tmp = <<>>
                   /\ after.disk = cs.disk
                   /\ DOMAIN after.chunks = DOMAIN after.disk
                   /\ \A id \in DOMAIN after.disk :
                         after.chunks[id].checksum = sha256(after.disk[id])
             /\ (ev'.type = "write_chunk" /\ ev'.error = "ChecksumMismatchError") =>
                   after = cs]_vars

\* a server has come up after a crash in the middle of a write: the scan has
\* removed a temp file and indexed a chunk written before
C30_Witness ==
    /\ ev.type = "start" /\ ev.value > 0
    /\ chunk_servers[ev.server_id].running
    /\ chunk_servers[ev.server_id].tmp = <<>>
    /\ DOMAIN chunk_servers[ev.server_id].disk # {}

\* ============================================================ cluster safety
\* C35: at most one node is LEADER in any given term.
C35_ElectionSafety ==
    \A n \in DOMAIN nodes : \A m \in DOMAIN nodes :
        (n # m /\ nodes[n].role = LEADER /\ nodes[m].role = LEADER) =>
            nodes[n].current_term # nodes[m].current_term

\* C36: no two entries applied at the same index, on the same node or on two
\* nodes, differ in term or command.
C36_StateMachineSafety ==
    \A n \in DOMAIN nodes : \A m \in DOMAIN nodes :
        \A i \in DOMAIN nodes[n].applied : \A j \in DOMAIN nodes[m].applied :
            nodes[n].applied[i].index = nodes[m].applied[j].index =>
                nodes[n].applied[i] = nodes[m].applied[j]

\* C37: on every node commit_index never decreases and stays below the
\* length of the log, and the entries up to commit_index are never removed or
\* replaced.
C37_CommittedKept ==
    [][\A n \in DOMAIN nodes :
          /\ nodes'[n].commit_index >= nodes[n].commit_index
          /\ nodes'[n].commit_index <= Len(nodes'[n].log) - 1
          /\ \A i \in 0 .. nodes[n].commit_index :
                /\ i < Len(nodes'[n].log)
                /\ i < Len(nodes[n].log) => nodes'[n].log[i + 1] = nodes[n].log[i + 1]]_vars

\* ============================================================ chain replication
\* server sid holds chunk_id with this checksum, in its index and on its disk
HoldsChunk(sid, chunk_id, checksum) ==
    /\ sid \in DOMAIN chunk_servers
    /\ chunk_id \in DOMAIN chunk_servers[sid].chunks
    /\ chunk_servers[sid].chunks[chunk_id].checksum = checksum
    /\ chunk_id \in DOMAIN chunk_servers[sid].disk
    /\ sha256(chunk_servers[sid].disk[chunk_id]) = checksum

\* C31: when every upload_chunk of a put has succeeded and every server of
\* the allocations is reachable, every server of a chunk's allocation holds
\* the chunk with the checksum the client supplied.
C31_ChainReplication ==
    \A c \in Threads :
        thread[c].pc = "put_commit" =>
            \A i \in DOMAIN thread[c].session.chunks :
                LET allocation == thread[c].session.chunks[i]
                IN (\A k \in DOMAIN allocation.servers :
                        allocation.servers[k] \in DOMAIN chunk_servers) =>
                   \A k \in DOMAIN allocation.servers :
                       HoldsChunk(allocation.servers[k], allocation.chunk_id,
                                  thread[c].checksums[i])

\* ============================================================ grace period
\* One node with its collector and one client, as in the collection, while
\* the clock moves on; the collector tasks keep running.
NextGrace ==
    \/ NextGC
    \/ Tick

SpecGrace ==
    /\ InitGC
    /\ [][NextGrace]_vars
    /\ WF_vars(\E n \in DOMAIN nodes : ProcessDeletions(n))
    /\ WF_vars(\E n \in DOMAIN nodes : ProcessChunkGc(n))

Entries(q) == {q[i] : i \in DOMAIN q}
\* the entries of node n that wait for their physical deletion
Waiting(n) == Entries(nodes[n].gc.chunk_gc_queue) \cup Entries(nodes[n].gc.pending)
DueWaiting(n) == {e \in Waiting(n) : e.delete_after <= now}

\* the entries a round of _process_deletions has put on chunk_gc_queue
Enqueued(n) ==
    {nodes'[n].gc.chunk_gc_queue[i] :
        i \in (DOMAIN nodes'[n].gc.chunk_gc_queue) \ (DOMAIN nodes[n].gc.chunk_gc_queue)}
\* the entries a round of _process_chunk_gc has handed to
\* _delete_chunk_from_servers
Issued(n) == Entries(nodes[n].gc.pending) \ Entries(nodes'[n].gc.pending)

GraceStep ==
    \A n \in DOMAIN nodes :
        /\ (ev'.type = "process_deletions" /\ ev'.node = n) =>
              \A e \in Enqueued(n) :
                  /\ get_chunk_ref(nodes'[n].storage, e.chunk_id) = 0
                  /\ e.delete_after = now + GC_GRACE_PERIOD_HOURS
        /\ (ev'.type = "process_chunk_gc" /\ ev'.node = n) =>
              \A e \in Issued(n) : e.delete_after <= now

\* C32: an entry is put on chunk_gc_queue only when the reference count of its
\* chunk is zero and with delete_after = the time of the call + the grace
\* period; the worker issues the deletion of an entry only when delete_after
\* <= now; and the entries whose delete_after has passed are eventually all
\* processed.
C32_GracePeriod ==
    /\ [][GraceStep]_vars
    /\ \A n \in {"n1"} : (DueWaiting(n) # {}) ~> (DueWaiting(n) = {})

\* the worker has run after the grace period of a chunk whose count was
\* dropped: the entry of that chunk waits no longer, and an entry put on the
\* queue later is kept waiting
C32_Witness ==
    /\ ev.type = "process_chunk_gc"
    /\ now >= GC_GRACE_PERIOD_HOURS
    /\ \E id \in DOMAIN nodes["n1"].storage.chunk_refs :
          \A e \in Waiting("n1") : e.chunk_id # id
    /\ \E e \in Entries(nodes["n1"].gc.pending) : e.delete_after > now

\* ============================================================ lazy deletion
ChildrenOf(s, id) == {s.children[k] : k \in {x \in DOMAIN s.children : x[1] = id}}
RECURSIVE Below(_, _, _)
\* the inode ids reached from the set ids over at most depth edges
Below(s, ids, depth) ==
    IF depth = 0 \/ ids = {} THEN {}
    ELSE LET next == UNION {ChildrenOf(s, id) : id \in ids}
         IN next \cup Below(s, next, depth - 1)
Descendants(s, id) == Below(s, {id}, Cardinality(DOMAIN s.children))

\* C33: when a round of _process_deletions deletes a directory inode, no
\* descendant of the directory is left: the inode of every descendant is
\* removed, and so are the chunk rows of every descendant file.
C33_SubtreeFirst ==
    [][\A n \in DOMAIN nodes :
          (ev'.type = "process_deletions" /\ ev'.node = n) =>
              \A id \in DOMAIN nodes[n].storage.inodes :
                  (/\ nodes[n].storage.inodes[id].type = DIRECTORY
                   /\ get_inode(nodes'[n].storage, id) = NoInode) =>
                      \A d \in Descendants(nodes[n].storage, id) :
                          /\ get_inode(nodes'[n].storage, d) = NoInode
                          /\ ~HasChunkRows(n, d)']_vars

\* ============================================================ edges
\* C34: in every state a reader can see, every edge (parent, name) -> child
\* of every store has an inode record for the child and one for the parent.
C34_NoDanglingEdge ==
    \A n \in DOMAIN nodes :
        \A k \in DOMAIN nodes[n].storage.children :
            /\ get_inode(nodes[n].storage, nodes[n].storage.children[k]) # NoInode
            /\ get_inode(nodes[n].storage, k[1]) # NoInode

\* ============================================================ inode kinds
\* C38: no step changes the type of an inode that exists before and after
\* it, and an inode that a step creates has a parent of type DIRECTORY.
C38_KindKept ==
    [][\A n \in DOMAIN nodes :
          \A id \in DOMAIN nodes'[n].storage.inodes :
              LET new == nodes'[n].storage.inodes[id]
                  old == get_inode(nodes[n].storage, id)
              IN /\ old # NoInode => new.type = old.type
                 /\ (old = NoInode /\ id # ROOT_INODE_ID) =>
                       get_inode(nodes'[n].storage, new.parent_id).type = DIRECTORY]_vars

\* ============================================================ root
\* One node, two clients: directories and uploads are created and every
\* path, "/" included, is deleted.
RootPaths == TreePaths \cup {<<>>}

NextRoot ==
    \/ \E n \in DOMAIN nodes : Start(n)
    \/ \E c \in Threads, n \in DOMAIN nodes, path \in TreePaths :
          CreateDirectoryBegin(c, n, path)
    \/ \E c \in Threads : CreateDirectoryLock(c)
    \/ \E c \in Threads : CreateDirectoryAdd(c)
    \/ \E c \in Threads, n \in DOMAIN nodes, path \in TreePaths, size \in TreeSizes :
          InitUploadBegin(c, n, "init_upload", path, size, <<>>)
    \/ \E c \in Threads : InitUploadLock(c)
    \/ \E c \in Threads : InitUploadAdd(c)
    \/ \E c \in Threads, n \in DOMAIN nodes, path \in RootPaths :
          DeleteBegin(c, n, "delete", path)
    \/ \E c \in Threads, n \in DOMAIN nodes, path \in RootPaths :
          DeleteBegin(c, n, "delete_recursive", path)
    \/ \E c \in Threads : DeleteLock(c)
    \/ \E c \in Threads : DeleteMark(c)
    \/ \E c \in Threads : DeleteEdge(c)

SpecRoot == InitTree /\ [][NextRoot]_vars

\* C39: in every state resolve_path("/") returns inode 1, with parent_id 1,
\* type DIRECTORY and status ACTIVE.
C39_RootKept ==
    \A n \in DOMAIN nodes :
        LET root == resolve_path(nodes[n].storage, <<>>)
        IN /\ root # NoInode
           /\ root.inode_id = ROOT_INODE_ID
           /\ root.parent_id = ROOT_INODE_ID
           /\ root.type = DIRECTORY
           /\ root.status = ACTIVE

\* ============================================================ chunk index
\* delete_chunk: the file, if there is one, is removed and its size taken
\* off used; the id leaves the index
delete_chunk(cs, chunk_id) ==
    LET gone == IF chunk_id \in DOMAIN cs.disk
                THEN [cs EXCEPT !.disk = data_delete(@, chunk_id),
                                !.used = @ - DataLen(cs.disk[chunk_id])]
                ELSE cs
    IN [gone EXCEPT !.chunks = data_delete(@, chunk_id)]

\* _report_missing_chunk: self.chunks.pop(chunk_id, None)
report_missing_chunk(cs, chunk_id) == [cs EXCEPT !.chunks = data_delete(@, chunk_id)]
\* _report_corrupted_chunk
report_corrupted_chunk(cs, chunk_id) == delete_chunk(cs, chunk_id)

\* one round of the loop of _scrub_chunks, for chunk_id
scrub_chunk(cs, chunk_id) ==
    IF chunk_id \notin DOMAIN cs.chunks THEN cs
    ELSE IF chunk_id \notin DOMAIN cs.disk THEN report_missing_chunk(cs, chunk_id)
    ELSE IF sha256(cs.disk[chunk_id]) # cs.chunks[chunk_id].checksum
    THEN report_corrupted_chunk(cs, chunk_id)
    ELSE cs

DeleteChunk(sid, chunk_id) ==
    /\ budget > 0
    /\ chunk_servers[sid].running
    /\ budget' = budget - 1
    /\ chunk_servers' = [chunk_servers EXCEPT ![sid] = delete_chunk(@, chunk_id)]
    /\ ev' = [ChunkEvent("delete_chunk", sid, TRUE, "") EXCEPT !.value = chunk_id]
    /\ UNCHANGED <<nodes, thread, uuid, allocated, last_put, upload_path, now>>

ScrubChunk(sid, chunk_id) ==
    /\ chunk_servers[sid].running
    /\ chunk_id \in DOMAIN chunk_servers[sid].chunks
    /\ chunk_servers' = [chunk_servers EXCEPT ![sid] = scrub_chunk(@, chunk_id)]
    /\ ev' = [ChunkEvent("scrub", sid, TRUE, "") EXCEPT !.value = chunk_id]
    /\ UNCHANGED <<nodes, thread, uuid, budget, allocated, last_put, upload_path, now>>

\* One chunk server: chunks are written, one file system call at a time,
\* and deleted, and the scrubber goes over the index.
NextStore ==
    \/ \E sid \in DOMAIN chunk_servers : StartServer(sid)
    \/ \E sid \in DOMAIN chunk_servers, id \in ChunkIds, d \in ChunkData,
          sum \in {sha256(1), sha256(2)} : WriteChunkBegin(sid, id, d, sum)
    \/ \E sid \in DOMAIN chunk_servers : WriteChunkStep(sid)
    \/ \E sid \in DOMAIN chunk_servers, id \in ChunkIds : DeleteChunk(sid, id)
    \/ \E sid \in DOMAIN chunk_servers, id \in ChunkIds : ScrubChunk(sid, id)

SpecStore == InitChunk /\ [][NextStore]_vars

RECURSIVE index_sizes(_, _)
index_sizes(chunks, ids) ==
    IF ids = {} THEN 0
    ELSE LET id == CHOOSE x \in ids : TRUE
         IN chunks[id].size + index_sizes(chunks, ids \ {id})

\* C40: on a running server with no write_chunk under way, used is the sum of
\* the sizes of the chunks of the index and is not negative, and the index
\* holds a chunk id exactly when the file of the chunk is on disk.
C40_UsedIsSum ==
    \A sid \in DOMAIN chunk_servers :
        LET cs == chunk_servers[sid]
        IN (cs.running /\ cs.call.pc = "idle") =>
              /\ cs.used = index_sizes(cs.chunks, DOMAIN cs.chunks)
              /\ cs.used >= 0
              /\ DOMAIN cs.chunks = DOMAIN cs.disk

====
